---- MODULE Spec2Model ----
(***************************************************************************)
(* Student-learning pipeline: schema unifier (unify_schema.py), cleaner    *)
(* and feature engine (clean_students.py) and the Airflow DAG that chains  *)
(* the stages (student_pipeline_dag.py).                                   *)
(*                                                                         *)
(* Conventions                                                             *)
(*  - a text value is a sequence of one-character strings;                 *)
(*  - Null stands for pandas' missing value (NaN / NaT / None / pd.NA);    *)
(*  - every program has its own specification (SpecDur, SpecClean,         *)
(*    SpecUnify, SpecDag); the variables of the other programs are idle.   *)
(***************************************************************************)
EXTENDS Integers, Sequences, FiniteSets, TLC

VARIABLES
    pc,            \* control position of the program under study
    s_in,          \* iso8601_duration_to_seconds: the argument s
    s_out,         \* iso8601_duration_to_seconds: the outcome of the call
    arg_df,        \* clean_dataframe: the table passed in (left untouched)
    df,            \* clean_dataframe: the working copy
    median_watch,  \* clean_dataframe: the local median_watch
    cap_q,         \* cap_outliers_iqr: the locals low and high, per column
    processed,     \* save_outputs: what this run wrote under data/processed
    fs,            \* unify_schema: the raw files on disk
    kaggle_dfs,    \* unify_schema.main: the frames load_kaggle returned
    simulated_df,  \* unify_schema.main: the frame load_simulated returned, if any
    youtube_df,    \* unify_schema.main: the frame load_youtube returned, if any
    all_frames,    \* unify_schema.main: the unified frames so far
    kdf_i,         \* unify_schema.main: the position of the loop over kaggle_dfs
    kaggle_rows,   \* unify_schema.main: the rows unified from survey files so far
    stats,         \* unify_schema.main: the row counts per source
    unified,       \* data/processed/unified_students.csv as this run wrote it
    task_state,    \* student_learning_pipeline: the state of each task of the run
    try_number,    \* student_learning_pipeline: the attempts each task has begun
    phase,         \* student_learning_pipeline: how far each running command is
    waited,        \* student_learning_pipeline: minutes waited for the retry
    out,           \* student_learning_pipeline: the file each stage hands on
    run_state      \* student_learning_pipeline: the state of the run

durVars == <<s_in, s_out>>
cleanVars == <<arg_df, df, median_watch, cap_q, processed>>
unifyVars == <<fs, kaggle_dfs, simulated_df, youtube_df, all_frames, kdf_i,
               kaggle_rows, stats, unified>>
dagVars == <<task_state, try_number, phase, waited, out, run_state>>
vars == <<pc, s_in, s_out, arg_df, df, median_watch, cap_q, processed,
          fs, kaggle_dfs, simulated_df, youtube_df, all_frames, kdf_i,
          kaggle_rows, stats, unified,
          task_state, try_number, phase, waited, out, run_state>>

\* values of cells and arguments: pandas' missing value (NaN / NaT / None /
\* pd.NA), a number, or a text
Null == [t |-> "null", v |-> 0]
Num(n) == [t |-> "num", v |-> n]
Str(s) == [t |-> "str", v |-> s]
IsNull(x) == x.t = "null"
IsNum(x) == x.t = "num"
IsStr(x) == x.t = "str"
Idle == "idle"

\* the variables of a program that is not the one under study
DurIdle == s_in = Idle /\ s_out = Idle
CleanIdle ==
    /\ arg_df = Idle /\ df = Idle /\ median_watch = Idle /\ cap_q = Idle
    /\ processed = Idle
UnifyIdle ==
    /\ fs = Idle /\ kaggle_dfs = Idle /\ simulated_df = Idle /\ youtube_df = Idle
    /\ all_frames = Idle /\ kdf_i = Idle /\ kaggle_rows = Idle
    /\ stats = Idle /\ unified = Idle
DagIdle ==
    /\ task_state = Idle /\ try_number = Idle /\ phase = Idle
    /\ waited = Idle /\ out = Idle /\ run_state = Idle

\* ------------------------------------------------------------ bounds
\* largest number written in a generated duration text
MaxNum == 3
\* largest count of colon-separated parts in a generated duration text
MaxParts == 4

\* ------------------------------------------------------------ text helpers
Digits == <<"0", "1", "2", "3", "4", "5", "6", "7", "8", "9">>

IsDigit(c) == \E i \in 1..10 : Digits[i] = c

DigitVal(c) == (CHOOSE i \in 1..10 : Digits[i] = c) - 1

Uppers == <<"A", "B", "C", "D", "E", "F", "G", "H", "I", "J", "K", "L", "M",
            "N", "O", "P", "Q", "R", "S", "T", "U", "V", "W", "X", "Y", "Z">>

Lowers == <<"a", "b", "c", "d", "e", "f", "g", "h", "i", "j", "k", "l", "m",
            "n", "o", "p", "q", "r", "s", "t", "u", "v", "w", "x", "y", "z">>

\* str.upper()
UpperChar(c) ==
    IF \E i \in 1..26 : Lowers[i] = c
    THEN Uppers[CHOOSE i \in 1..26 : Lowers[i] = c]
    ELSE c

Upper(s) == [i \in 1..Len(s) |-> UpperChar(s[i])]

\* str.lower()
LowerChar(c) ==
    IF \E i \in 1..26 : Uppers[i] = c
    THEN Lowers[CHOOSE i \in 1..26 : Uppers[i] = c]
    ELSE c

Lower(s) == [i \in 1..Len(s) |-> LowerChar(s[i])]

\* str.strip(): leading and trailing blanks removed
RECURSIVE LStrip(_)
LStrip(s) == IF s # <<>> /\ Head(s) = " " THEN LStrip(Tail(s)) ELSE s

RECURSIVE RStrip(_)
RStrip(s) ==
    IF s # <<>> /\ s[Len(s)] = " " THEN RStrip(SubSeq(s, 1, Len(s) - 1)) ELSE s

Strip(s) == RStrip(LStrip(s))

\* decimal text of a natural number, as str(n) writes it
RECURSIVE NatText(_)
NatText(n) ==
    IF n < 10 THEN <<Digits[n + 1]>>
    ELSE NatText(n \div 10) \o <<Digits[(n % 10) + 1]>>

\* value of a non-empty run of digits
RECURSIVE DigitsVal(_)
DigitsVal(s) ==
    IF Len(s) = 1 THEN DigitVal(s[1])
    ELSE 10 * DigitsVal(SubSeq(s, 1, Len(s) - 1)) + DigitVal(s[Len(s)])

AllDigits(s) == s # <<>> /\ \A i \in 1..Len(s) : IsDigit(s[i])

\* s.split(":")
RECURSIVE SplitColon(_)
SplitColon(s) ==
    IF \A i \in 1..Len(s) : s[i] # ":" THEN <<s>>
    ELSE LET k == CHOOSE i \in 1..Len(s) :
                      s[i] = ":" /\ \A j \in 1..(i - 1) : s[j] # ":"
         IN <<SubSeq(s, 1, k - 1)>> \o SplitColon(SubSeq(s, k + 1, Len(s)))

\* int(x) on text: blanks around the literal are ignored, one sign is allowed,
\* anything else raises ValueError (ok = FALSE)
IntOf(x) ==
    LET t == Strip(x)
        neg == t # <<>> /\ Head(t) = "-"
        signed == t # <<>> /\ Head(t) \in {"-", "+"}
        body == IF signed THEN Tail(t) ELSE t
    IN IF AllDigits(body)
       THEN [ok |-> TRUE,
             val |-> IF neg THEN 0 - DigitsVal(body) ELSE DigitsVal(body)]
       ELSE [ok |-> FALSE, val |-> 0]

\* ------------------------------------------------------------ ISO8601_DURATION_RE
\* longest run of digits at the start of s
RECURSIVE DigitRun(_)
DigitRun(s) ==
    IF s # <<>> /\ IsDigit(Head(s)) THEN <<Head(s)>> \o DigitRun(Tail(s)) ELSE <<>>

\* one optional group (?:(\d+)X)? applied at the start of s: the group's
\* digits (empty when the group does not take part) and the rest of the text
OptGroup(s, letter) ==
    LET run == DigitRun(s)
        rest == SubSeq(s, Len(run) + 1, Len(s))
    IN IF run # <<>> /\ rest # <<>> /\ Head(rest) = letter
       THEN [grp |-> run, rest |-> Tail(rest)]
       ELSE [grp |-> <<>>, rest |-> s]

\* ISO8601_DURATION_RE.match(s): whether it matches, and the groups
IsoMatch(s) ==
    IF Len(s) >= 2 /\ s[1] = "P" /\ s[2] = "T"
    THEN LET h == OptGroup(SubSeq(s, 3, Len(s)), "H")
             m == OptGroup(h.rest, "M")
             sec == OptGroup(m.rest, "S")
         IN [matched |-> sec.rest = <<>>,
             hours |-> h.grp, minutes |-> m.grp, seconds |-> sec.grp]
    ELSE [matched |-> FALSE, hours |-> <<>>, minutes |-> <<>>, seconds |-> <<>>]

\* int(m.group(g) or 0)
GroupInt(g) == IF g = <<>> THEN 0 ELSE DigitsVal(g)

\* outcomes of a call: a returned integer, a returned None, a raised exception
RetInt(n) == [kind |-> "int", val |-> n]
RetNone == [kind |-> "none", val |-> 0]
Raised == [kind |-> "raise", val |-> 0]

\* the colon fallback taken when the pattern does not match; a list of more
\* than three integers leaves the try block without returning, and the code
\* after it then reads m.group on m = None
ColonFallback(s) ==
    LET raw == SplitColon(s)
        parts == [i \in 1..Len(raw) |-> IntOf(raw[i])]
    IN IF \E i \in 1..Len(parts) : ~parts[i].ok THEN RetNone
       ELSE IF Len(parts) = 3
            THEN RetInt(parts[1].val * 3600 + parts[2].val * 60 + parts[3].val)
       ELSE IF Len(parts) = 2 THEN RetInt(parts[1].val * 60 + parts[2].val)
       ELSE IF Len(parts) = 1 THEN RetInt(parts[1].val)
       ELSE Raised

\* iso8601_duration_to_seconds(s)
iso8601_duration_to_seconds(s) ==
    IF ~IsStr(s) THEN RetNone
    ELSE LET t == Upper(Strip(s.v))
             m == IsoMatch(t)
         IN IF ~m.matched THEN ColonFallback(t)
            ELSE RetInt(GroupInt(m.hours) * 3600 + GroupInt(m.minutes) * 60
                        + GroupInt(m.seconds))

\* ------------------------------------------------------------ SpecDur
\* The arguments the function is called with.  A generated text keeps the
\* numbers it was written from (nums), so that the outcome of parsing the text
\* can be compared with them.
\*   shape "iso":   PT<h>H<m>M<s>S, a number of -1 leaves its group out
\*   shape "colon": the numbers joined by ":"
\*   shape "other": not a text, or a text of neither form
Pad2(n) == IF n < 10 THEN <<"0">> \o NatText(n) ELSE NatText(n)

NumText(n, style) == IF style = "padded" THEN Pad2(n) ELSE NatText(n)

IsoGroupText(n, letter, style) ==
    IF n < 0 THEN <<>> ELSE NumText(n, style) \o <<letter>>

IsoText(hms, style) ==
    <<"P", "T">> \o IsoGroupText(hms[1], "H", style)
        \o IsoGroupText(hms[2], "M", style) \o IsoGroupText(hms[3], "S", style)

RECURSIVE ColonText(_, _)
ColonText(nums, style) ==
    IF Len(nums) = 1 THEN NumText(nums[1], style)
    ELSE NumText(nums[1], style) \o <<":">> \o ColonText(Tail(nums), style)

\* lower case with blanks around it, as a hand-written cell may be
Sloppy(s) == <<" ">> \o Lower(s) \o <<" ">>

Styles == {"plain", "padded", "sloppy"}

Styled(s, style) == IF style = "sloppy" THEN Sloppy(s) ELSE s

OtherArgs ==
    { Null, Num(90),
      Str(<<>>), Str(<<"a", "b", "c">>), Str(<<"P">>), Str(<<"P", "1", "D">>),
      Str(<<"P", "T", "5">>), Str(<<"P", "T", "1", "X">>),
      Str(<<"T", "1", "H">>), Str(<<"1", ":", "x">>), Str(<<"1", ".", "5">>),
      Str(<<"1", ":", ":", "2">>), Str(<<"P", "T", "1", "M", "2", "H">>) }

DurArgs ==
    { [shape |-> "iso", nums |-> hms, arg |-> Str(Styled(IsoText(hms, st), st))] :
        hms \in [1..3 -> -1..MaxNum], st \in Styles }
    \cup
    { [shape |-> "colon", nums |-> ns, arg |-> Str(Styled(ColonText(ns, st), st))] :
        ns \in UNION { [1..n -> 0..MaxNum] : n \in 1..MaxParts }, st \in Styles }
    \cup
    { [shape |-> "other", nums |-> <<>>, arg |-> a] : a \in OtherArgs }

InitDur ==
    /\ pc = "call"
    /\ s_in \in DurArgs
    /\ s_out = Idle
    /\ CleanIdle /\ UnifyIdle /\ DagIdle

\* one call of iso8601_duration_to_seconds
CallDuration ==
    /\ pc = "call"
    /\ s_out' = iso8601_duration_to_seconds(s_in.arg)
    /\ pc' = "returned"
    /\ UNCHANGED <<s_in, cleanVars, unifyVars, dagVars>>

NextDur == CallDuration

SpecDur == InitDur /\ [][NextDur]_vars

\* what the documentation promises for an argument
Absent0(n) == IF n < 0 THEN 0 ELSE n

PromisedSeconds(a) ==
    CASE a.shape = "iso" ->
            RetInt(Absent0(a.nums[1]) * 3600 + Absent0(a.nums[2]) * 60
                   + Absent0(a.nums[3]))
      [] a.shape = "colon" /\ Len(a.nums) = 3 ->
            RetInt(a.nums[1] * 3600 + a.nums[2] * 60 + a.nums[3])
      [] a.shape = "colon" /\ Len(a.nums) = 2 ->
            RetInt(a.nums[1] * 60 + a.nums[2])
      [] a.shape = "colon" /\ Len(a.nums) = 1 -> RetInt(a.nums[1])
      [] OTHER -> RetNone

\* C4: iso8601_duration_to_seconds returns hours*3600+minutes*60+seconds for
\* PT#H#M#S and H:MM:SS, minutes*60+seconds for MM:SS, the integer for a bare
\* integer, and returns None without raising for every other argument,
\* a list of more than three colon-separated integers included.
C4_DurationAsDocumented ==
    pc = "returned" => s_out = PromisedSeconds(s_in)

\* C4, the part the code keeps: every argument but a list of more than three
\* colon-separated integers gets the documented outcome.
C4_DurationUpToThreeParts ==
    (pc = "returned" /\ ~(s_in.shape = "colon" /\ Len(s_in.nums) > 3))
        => s_out = PromisedSeconds(s_in)

\* C4: PT1H2M3S has been converted to 3723
C4_Witness3723 ==
    /\ pc = "returned"
    /\ s_in.arg = Str(<<"P", "T", "1", "H", "2", "M", "3", "S">>)
    /\ s_out = RetInt(3723)

\* ======================================================================
\* clean_students.py: clean_dataframe
\* ======================================================================
\* A table is [cols, rows]: the set of column names and the rows in order.
\* A row is a record with one field per column the model knows and the field
\* name, the row's index label; a field whose column is not in cols is unused.
\* Numbers are held in hundredths (12.5 is 1250), which is exact for the
\* whole-number inputs of the model under the 1 % and 99 % quantiles.
Hundred == 100

Has(T, c) == c \in T.cols

WithCol(T, c, f(_)) ==
    [cols |-> T.cols \cup {c},
     rows |-> [i \in 1..Len(T.rows) |->
                 LET r == T.rows[i] IN [r EXCEPT ![c] = f(r)]]]

\* the non-null numbers of a column, in row order
RECURSIVE NonNull(_, _)
NonNull(rows, c) ==
    IF rows = <<>> THEN <<>>
    ELSE IF IsNum(Head(rows)[c]) THEN <<Head(rows)[c].v>> \o NonNull(Tail(rows), c)
    ELSE NonNull(Tail(rows), c)

Sorted(s) == SortSeq(s, LAMBDA a, b : a < b)

\* twice Series.median(skipna=True) of a non-empty list of numbers
Median2(vals) ==
    LET s == Sorted(vals)
        n == Len(s)
    IN IF n % 2 = 1 THEN 2 * s[(n + 1) \div 2] ELSE s[n \div 2] + s[n \div 2 + 1]

\* Series.quantile(q) with q = pct / 100, linear interpolation
Quantile(vals, pct) ==
    LET s == Sorted(vals)
        pos == (Len(s) - 1) * pct
        lo == pos \div Hundred
        frac == pos % Hundred
    IN IF frac = 0 THEN s[lo + 1]
       ELSE s[lo + 1] + ((s[lo + 2] - s[lo + 1]) * frac) \div Hundred

\* ------------------------------------------------------------ step 1, 2
\* "_source_file" in c or "metadata" in c.lower(), on the names of the model
IsMetadataName(c) == c \in {"_source_file", "video_metadata", "Metadata"}

DropMetadata(T) == [T EXCEPT !.cols = {c \in T.cols : ~IsMetadataName(c)}]

\* ------------------------------------------------------------ step 3
T_female == <<"f", "e", "m", "a", "l", "e">>
T_male == <<"m", "a", "l", "e">>
T_unknown == <<"u", "n", "k", "n", "o", "w", "n">>
T_nan == <<"n", "a", "n">>

\* str(x) of a number held in hundredths: 1 for an integer column, 1.0 or
\* 1.25 for a float column
FracText(f) ==
    IF f % 10 = 0 THEN <<Digits[(f \div 10) + 1]>>
    ELSE <<Digits[(f \div 10) + 1], Digits[(f % 10) + 1]>>

NumberText(n, isFloat) ==
    LET a == IF n < 0 THEN 0 - n ELSE n
        sign == IF n < 0 THEN <<"-">> ELSE <<>>
    IN IF isFloat
       THEN sign \o NatText(a \div Hundred) \o <<".">> \o FracText(a % Hundred)
       ELSE sign \o NatText(a \div Hundred)

\* a numeric column is float64 when it holds a missing value or a fraction
IsFloatCol(rows, c) ==
    /\ \A i \in 1..Len(rows) : ~IsStr(rows[i][c])
    /\ \E i \in 1..Len(rows) :
          IsNull(rows[i][c]) \/ (IsNum(rows[i][c]) /\ rows[i][c].v % Hundred # 0)

\* Series.astype(str), one cell
AsText(x, isFloat) ==
    IF IsNull(x) THEN T_nan
    ELSE IF IsNum(x) THEN NumberText(x.v, isFloat)
    ELSE x.v

\* the dict mapping of step 3; .map() leaves a key it does not hold missing
GenderKeys ==
    { <<"f">>, T_female, <<"w", "o", "m", "a", "n">>, <<"f", "e", "m", "m", "e">>,
      <<"m">>, T_male, <<"m", "a", "n">>, <<"h", "o", "m", "m", "e">>,
      <<"0">>, <<"1">>, T_nan }

GenderMap(k) ==
    IF k \in { <<"f">>, T_female, <<"w", "o", "m", "a", "n">>,
               <<"f", "e", "m", "m", "e">> } THEN Str(T_female)
    ELSE IF k \in { <<"m">>, T_male, <<"m", "a", "n">>,
                    <<"h", "o", "m", "m", "e">> } THEN Str(T_male)
    ELSE IF k \in GenderKeys THEN Str(T_unknown)
    ELSE Null

\* Series.fillna(value), one cell
FillNa(x, value) == IF IsNull(x) THEN value ELSE x

\* a faulty variant of NormalizeGenderCell: the text is not trimmed
NormalizeGenderCellUntrimmed(x, isFloat) ==
    FillNa(GenderMap(Lower(AsText(x, isFloat))), Str(T_unknown))

\* .astype(str).str.lower().str.strip().map(mapping).fillna("unknown")
NormalizeGenderCell(x, isFloat) ==
    FillNa(GenderMap(Strip(Lower(AsText(x, isFloat)))), Str(T_unknown))

NormalizeGender(T) ==
    IF Has(T, "student_gender")
    THEN LET fl == IsFloatCol(T.rows, "student_gender")
         IN WithCol(T, "student_gender",
                    LAMBDA r : NormalizeGenderCell(r["student_gender"], fl))
    ELSE WithCol(T, "student_gender", LAMBDA r : Str(T_unknown))

\* ------------------------------------------------------------ step 4
\* str.replace(",", ".") then str.replace(r"[^\d\.\-]", "")
RECURSIVE NumericChars(_)
NumericChars(s) ==
    IF s = <<>> THEN <<>>
    ELSE LET c == IF Head(s) = "," THEN "." ELSE Head(s)
         IN IF IsDigit(c) \/ c \in {".", "-"}
            THEN <<c>> \o NumericChars(Tail(s))
            ELSE NumericChars(Tail(s))

\* pd.to_numeric(text, errors="coerce"): a decimal literal or missing;
\* fractions are kept to the hundredth
ToNumeric(s) ==
    LET neg == s # <<>> /\ Head(s) = "-"
        body == IF neg THEN Tail(s) ELSE s
        dots == {i \in 1..Len(body) : body[i] = "."}
        k == IF dots = {} THEN Len(body) + 1 ELSE CHOOSE i \in dots : TRUE
        ip == SubSeq(body, 1, k - 1)
        fp == SubSeq(body, k + 1, Len(body))
        ok == /\ Cardinality(dots) <= 1
              /\ \A i \in 1..Len(ip) : IsDigit(ip[i])
              /\ \A i \in 1..Len(fp) : IsDigit(fp[i])
              /\ Len(ip) + Len(fp) >= 1
        iv == IF ip = <<>> THEN 0 ELSE DigitsVal(ip)
        f2 == SubSeq(fp \o <<"0", "0">>, 1, 2)
        mag == iv * Hundred + DigitsVal(f2)
    IN IF ok THEN Num(IF neg THEN 0 - mag ELSE mag) ELSE Null

\* coerce_numeric_series, one cell: only text goes through the replacements
CoerceCell(x) == IF IsStr(x) THEN ToNumeric(NumericChars(x.v)) ELSE x

numeric_candidates ==
    <<"watch_time", "duration_sec", "duration", "views", "engagement",
      "student_age", "hours_studied", "assignments_completed", "participation">>

RECURSIVE CoerceCols(_, _)
CoerceCols(T, cs) ==
    IF cs = <<>> THEN T
    ELSE CoerceCols(IF Has(T, Head(cs))
                    THEN WithCol(T, Head(cs), LAMBDA r : CoerceCell(r[Head(cs)]))
                    ELSE T,
                    Tail(cs))

CoerceNumeric(T) == CoerceCols(T, numeric_candidates)

\* ------------------------------------------------------------ step 5
\* r.get("duration_sec"): None when the table has no such column
GetCell(T, r, c) == IF Has(T, c) THEN r[c] ELSE Null

\* the row lambda of step 5 raises when iso8601_duration_to_seconds does, and
\* the exception then ends clean_dataframe
DurationRaises(T) ==
    /\ Has(T, "duration")
    /\ \E i \in 1..Len(T.rows) : ~IsNull(T.rows[i]["duration"])
    /\ \E i \in 1..Len(T.rows) :
          /\ IsNull(GetCell(T, T.rows[i], "duration_sec"))
          /\ iso8601_duration_to_seconds(GetCell(T, T.rows[i], "duration")) = Raised

DurationCell(T, r) ==
    IF ~IsNull(GetCell(T, r, "duration_sec")) THEN r["duration_sec"]
    ELSE LET o == iso8601_duration_to_seconds(GetCell(T, r, "duration"))
         IN IF o.kind = "int" THEN Num(o.val * Hundred) ELSE Null

\* pd.to_numeric(df["duration_sec"], errors="coerce") leaves numbers as they are
NormalizeDuration(T) ==
    IF Has(T, "duration") /\ \E i \in 1..Len(T.rows) : ~IsNull(T.rows[i]["duration"])
    THEN WithCol(T, "duration_sec", LAMBDA r : DurationCell(T, r))
    ELSE T

\* ------------------------------------------------------------ step 6
MinutesLimit == 100

\* df["watch_time"].median(skipna=True), doubled; Null when nothing is left
MedianWatch2(T) ==
    LET vals == NonNull(T.rows, "watch_time")
    IN IF vals = <<>> THEN Null ELSE Num(Median2(vals))

\* pd.notna(median_watch) and median_watch > 0 and median_watch < 100
LooksLikeMinutes(m2) ==
    ~IsNull(m2) /\ m2.v > 0 /\ m2.v < 2 * MinutesLimit * Hundred

Times60(x) == IF IsNum(x) THEN Num(x.v * 60) ELSE Null

\* a faulty variant of WatchCell: the unit is decided row by row
WatchCellPerRow(x, m2) ==
    IF IsNum(x) /\ x.v > 0 /\ x.v < MinutesLimit * Hundred THEN Times60(x) ELSE x

WatchCell(x, m2) == IF LooksLikeMinutes(m2) THEN Times60(x) ELSE x

NormalizeWatchTime(T) ==
    IF Has(T, "watch_time")
    THEN LET m2 == MedianWatch2(T)
         IN WithCol(T, "watch_time_sec", LAMBDA r : WatchCell(r["watch_time"], m2))
    ELSE T

\* ------------------------------------------------------------ step 7
\* pd.to_datetime(cell, errors="coerce", utc=True): an instant (hours since the
\* epoch) stays, anything else becomes NaT
ToDatetime(x) == IF IsNum(x) THEN x ELSE Null

ParseTimestamp(T) ==
    IF Has(T, "timestamp")
    THEN WithCol(T, "timestamp", LAMBDA r : ToDatetime(r["timestamp"]))
    ELSE IF Has(T, "published_at")
    THEN WithCol(T, "timestamp", LAMBDA r : ToDatetime(r["published_at"]))
    ELSE WithCol(T, "timestamp", LAMBDA r : Null)

\* ------------------------------------------------------------ step 8
\* f"{r.get('source_file','unknown')}_{r.name}"
SyntheticId(T, r) ==
    LET sf == IF Has(T, "source_file")
              THEN AsText(r["source_file"], TRUE)
              ELSE T_unknown
    IN Str(sf \o <<"_">> \o NatText(r.name))

AllNull(T, c) == \A i \in 1..Len(T.rows) : IsNull(T.rows[i][c])

EnsureStudentId(T) ==
    IF ~Has(T, "student_id") \/ AllNull(T, "student_id")
    THEN WithCol(T, "student_id", LAMBDA r : SyntheticId(T, r))
    ELSE T

\* ------------------------------------------------------------ step 9
Frac(n, d) == [t |-> "frac", v |-> <<n, d>>]
Inf(sign) == [t |-> "inf", v |-> sign]
IsInf(x) == x.t = "inf"

\* the float division x / y of two cells: a missing operand or 0 / 0 gives NaN,
\* a non-zero number over 0 gives +inf or -inf
Div(x, y) ==
    IF IsNull(x) \/ IsNull(y) THEN Null
    ELSE IF y.v = 0
         THEN (IF x.v = 0 THEN Null ELSE IF x.v > 0 THEN Inf(1) ELSE Inf(-1))
    ELSE IF y.v > 0 THEN Frac(x.v, y.v)
    ELSE Frac(0 - x.v, 0 - y.v)

\* a faulty variant of ReplaceInf: infinities are left in place
KeepInf(x) == x

\* .replace([np.inf, -np.inf], np.nan)
ReplaceInf(x) == IF IsInf(x) THEN Null ELSE x

CompletionRate(T, r) ==
    IF Has(T, "watch_time_sec") /\ Has(T, "duration_sec")
    THEN ReplaceInf(Div(r["watch_time_sec"], r["duration_sec"]))
    ELSE Null

\* a faulty variant of EngagementRate: the raw value is taken row by row
\* wherever the division has no result
EngagementRatePerRow(T, r) ==
    IF Has(T, "duration_sec") /\ ~IsNull(r["duration_sec"]) /\ r["duration_sec"].v # 0
    THEN Div(r["engagement"], r["duration_sec"])
    ELSE r["engagement"]

EngagementRate(T, r) ==
    IF Has(T, "duration_sec")
    THEN ReplaceInf(Div(r["engagement"], r["duration_sec"]))
    ELSE r["engagement"]

Flag(b) == IF b THEN Num(Hundred) ELSE Num(0)

\* x >= 0.5 on completion_rate.fillna(0)
AtLeastHalf(x) ==
    IF IsNull(x) THEN FALSE
    ELSE IF IsInf(x) THEN x.v > 0
    ELSE 2 * x.v[1] >= x.v[2]

\* 1 if x > 0 else 0, on participation.fillna(0)
Positive(x) == ~IsNull(x) /\ x.v > 0

\* a faulty variant of IsEngaged: completion_rate decides row by row wherever
\* participation is missing
IsEngagedPerRow(T, r) ==
    IF Has(T, "participation") /\ ~IsNull(r["participation"])
    THEN Flag(Positive(r["participation"]))
    ELSE Flag(AtLeastHalf(r["completion_rate"]))

IsEngaged(T, r) ==
    IF Has(T, "participation") THEN Flag(Positive(r["participation"]))
    ELSE Flag(AtLeastHalf(r["completion_rate"]))

\* timestamp.dt.hour and timestamp.dt.weekday of an instant held as hours
\* since 1970-01-01 00:00 UTC, a Thursday (weekday 3)
HourOf(x) == IF IsNull(x) THEN Null ELSE Num((x.v % 24) * Hundred)
WeekdayOf(x) == IF IsNull(x) THEN Null ELSE Num((((x.v \div 24) + 3) % 7) * Hundred)

DeriveFeatures(T) ==
    LET T1 == WithCol(T, "completion_rate", LAMBDA r : CompletionRate(T, r))
        T2 == IF Has(T1, "engagement")
              THEN WithCol(T1, "engagement_rate", LAMBDA r : EngagementRate(T1, r))
              ELSE T1
        T3 == WithCol(T2, "is_engaged", LAMBDA r : IsEngaged(T2, r))
        T4 == WithCol(T3, "hour", LAMBDA r : HourOf(r["timestamp"]))
    IN WithCol(T4, "weekday", LAMBDA r : WeekdayOf(r["timestamp"]))

\* ------------------------------------------------------------ step 10
KeyCols(T) == {c \in {"student_id", "course_name", "timestamp"} : Has(T, c)}

\* the values of a row under the key columns; drop_duplicates takes two
\* missing values of a column as equal
KeyOf(T, r) == [c \in KeyCols(T) |-> r[c]]

\* a faulty variant of KeepFirst: a row with a missing key value is never dropped
RECURSIVE KeepFirstExemptingNulls(_, _, _)
KeepFirstExemptingNulls(T, rows, seen) ==
    IF rows = <<>> THEN <<>>
    ELSE IF \E c \in KeyCols(T) : IsNull(Head(rows)[c])
         THEN <<Head(rows)>> \o KeepFirstExemptingNulls(T, Tail(rows), seen)
    ELSE IF KeyOf(T, Head(rows)) \in seen
         THEN KeepFirstExemptingNulls(T, Tail(rows), seen)
    ELSE <<Head(rows)>>
         \o KeepFirstExemptingNulls(T, Tail(rows), seen \cup {KeyOf(T, Head(rows))})

\* DataFrame.drop_duplicates(subset=key_cols, keep="first")
RECURSIVE KeepFirst(_, _, _)
KeepFirst(T, rows, seen) ==
    IF rows = <<>> THEN <<>>
    ELSE IF KeyOf(T, Head(rows)) \in seen THEN KeepFirst(T, Tail(rows), seen)
    ELSE <<Head(rows)>> \o KeepFirst(T, Tail(rows), seen \cup {KeyOf(T, Head(rows))})

DropDuplicates(T) ==
    IF KeyCols(T) # {} THEN [T EXCEPT !.rows = KeepFirst(T, T.rows, {})] ELSE T

\* ------------------------------------------------------------ step 11
capped_columns == <<"watch_time_sec", "duration_sec", "views">>

LowerPct == 1
UpperPct == 99

NoQuantiles == [set |-> FALSE, low |-> 0, high |-> 0]

\* the locals low and high of cap_outliers_iqr for column c
CapQuantiles(T, c) ==
    LET vals == NonNull(T.rows, c)
    IN IF ~Has(T, c) \/ vals = <<>> THEN NoQuantiles
       ELSE [set |-> TRUE, low |-> Quantile(vals, LowerPct),
             high |-> Quantile(vals, UpperPct)]

\* a faulty variant of Clip: only the upper bound is applied
ClipUpperOnly(x, low, high) ==
    IF ~IsNum(x) THEN x ELSE IF x.v > high THEN Num(high) ELSE x

\* Series.clip(lower=low, upper=high), one cell
Clip(x, low, high) ==
    IF ~IsNum(x) THEN x
    ELSE IF x.v < low THEN Num(low)
    ELSE IF x.v > high THEN Num(high)
    ELSE x

\* cap_outliers_iqr on column c
cap_outliers_iqr(T, c) ==
    LET q == CapQuantiles(T, c)
    IN IF q.set THEN WithCol(T, c, LAMBDA r : Clip(r[c], q.low, q.high)) ELSE T

RECURSIVE CapCols(_, _)
CapCols(T, cs) ==
    IF cs = <<>> THEN T
    ELSE CapCols(IF Has(T, Head(cs)) THEN cap_outliers_iqr(T, Head(cs)) ELSE T,
                 Tail(cs))

CapOutliers(T) == CapCols(T, capped_columns)

\* ------------------------------------------------------------ step 12
\* int(x) of the median m2 / 2 held in hundredths: truncation towards zero
IntOfMedian(m2) ==
    IF m2 >= 0 THEN (m2 \div (2 * Hundred)) * Hundred
    ELSE 0 - (((0 - m2) \div (2 * Hundred)) * Hundred)

FillAge(T) ==
    IF Has(T, "student_age") /\ ~AllNull(T, "student_age")
    THEN LET median_age == IntOfMedian(Median2(NonNull(T.rows, "student_age")))
         IN WithCol(T, "student_age", LAMBDA r : FillNa(r["student_age"], Num(median_age)))
    ELSE T

numeric_fill_zero == <<"watch_time_sec", "duration_sec", "views", "engagement">>

RECURSIVE FillZeroCols(_, _)
FillZeroCols(T, cs) ==
    IF cs = <<>> THEN T
    ELSE FillZeroCols(IF Has(T, Head(cs))
                      THEN WithCol(T, Head(cs), LAMBDA r : FillNa(r[Head(cs)], Num(0)))
                      ELSE T,
                      Tail(cs))

\* a faulty variant of FillMissing: completion_rate is derived again from the
\* filled columns
FillMissingRecomputing(T) ==
    LET T1 == FillAge(T)
        T2 == WithCol(T1, "student_gender",
                      LAMBDA r : FillNa(r["student_gender"], Str(T_unknown)))
        T3 == FillZeroCols(T2, numeric_fill_zero)
    IN WithCol(T3, "completion_rate", LAMBDA r : CompletionRate(T3, r))

FillMissing(T) ==
    LET T1 == FillAge(T)
        T2 == WithCol(T1, "student_gender",
                      LAMBDA r : FillNa(r["student_gender"], Str(T_unknown)))
    IN FillZeroCols(T2, numeric_fill_zero)

\* ------------------------------------------------------------ SpecClean
\* the tables clean_dataframe is called with
MaxRows == 3

T_math == <<"M", "a", "t", "h">>
T_file == <<"k", ".", "c", "s", "v">>

\* the columns unify_columns always writes, and the provenance column
BaseCols ==
    {"student_id", "student_gender", "student_age", "course_name", "watch_time",
     "duration_sec", "engagement", "timestamp", "source_file", "_source_file"}

BaseRow(i) ==
    [name |-> i - 1,
     student_id |-> Str(<<"s">> \o NatText(i)),
     student_gender |-> Str(<<"F">>),
     student_age |-> Null,
     course_name |-> Str(T_math),
     watch_time |-> Null,
     duration_sec |-> Null,
     duration |-> Null,
     views |-> Null,
     engagement |-> Null,
     participation |-> Null,
     timestamp |-> Null,
     published_at |-> Null,
     source_file |-> Str(T_file),
     watch_time_sec |-> Null,
     completion_rate |-> Null,
     engagement_rate |-> Null,
     is_engaged |-> Null,
     hour |-> Null,
     weekday |-> Null]

\* row i of a table: the base row with the cells of one family written over it
RowWith(i, cells) ==
    LET b == BaseRow(i)
    IN [f \in DOMAIN b |-> IF f \in DOMAIN cells THEN cells[f] ELSE b[f]]

N(k) == Num(k * Hundred)

KeyCells ==
    { [student_id |-> a, course_name |-> b, timestamp |-> c] :
        a \in {Null, Str(<<"s", "1">>)}, b \in {Null, Str(T_math)},
        c \in {Null, Num(10)} }

WatchCells ==
    { [watch_time |-> w, duration_sec |-> N(60)] :
        w \in {Null, N(0), N(45), N(100), N(155)} }
    \cup
    { [watch_time |-> w, duration_sec |-> d] :
        w \in {Null, N(45), N(155)}, d \in {Null, N(0), N(60)} }

\* gender cells with the value the documentation gives each
GenderCases ==
    { <<Str(<<"F">>), T_female>>,
      <<Str(<<"H", "o", "m", "m", "e">>), T_male>>,
      <<Str(<<"1">>), T_unknown>>,
      <<Str(<<" ", "W", "o", "m", "a", "n", " ">>), T_female>>,
      <<Str(<<"m">>), T_male>>,
      <<Str(<<"0">>), T_unknown>>,
      <<Str(<<"x">>), T_unknown>>,
      <<Null, T_unknown>> }

GenderCells == { [student_gender |-> g[1]] : g \in GenderCases }

MixedCells ==
    { [views |-> Str(<<"1", ",", "5">>), participation |-> N(5), student_age |-> N(20),
       engagement |-> N(1), duration |-> Str(<<"P", "T", "1", "M">>),
       timestamp |-> Str(<<"x">>), published_at |-> Num(30)],
      [views |-> Str(<<"7">>), participation |-> N(0), student_age |-> N(23),
       engagement |-> Null, duration |-> Str(<<"0", ":", "0", ":", "0", ":", "0">>),
       duration_sec |-> N(90), watch_time |-> N(30), timestamp |-> Num(50)],
      [views |-> Null, participation |-> Null, student_age |-> Null,
       engagement |-> N(2), duration |-> Null, watch_time |-> N(200),
       student_id |-> Null, source_file |-> Null] }

T_PT1H2M3S == <<"P", "T", "1", "H", "2", "M", "3", "S">>
T_1_02_03 == <<"1", ":", "0", "2", ":", "0", "3">>
T_abc == <<"a", "b", "c">>

\* duration texts with the seconds the documentation gives each; -1 is none
DurationCases ==
    { <<T_PT1H2M3S, 3723>>, <<T_1_02_03, 3723>>, <<T_abc, -1>>,
      <<<<"P", "T", "1", "M">>, 60>> }

DurationCells ==
    { [duration |-> Str(T_PT1H2M3S), duration_sec |-> Null],
      [duration |-> Str(T_1_02_03), duration_sec |-> Null],
      [duration |-> Str(T_abc), duration_sec |-> Null],
      [duration |-> Str(T_PT1H2M3S), duration_sec |-> N(90)],
      [duration |-> Null, duration_sec |-> Null] }

EngagementCells ==
    { [engagement |-> e, duration_sec |-> d] :
        e \in {Null, N(3)}, d \in {Null, N(0), N(60)} }

ParticipationCells ==
    { [participation |-> p, watch_time |-> N(100), duration_sec |-> d] :
        p \in {Null, N(0), N(5)}, d \in {N(200), N(300)} }

\* head(10) of top_courses_by_views
TopN == 10

T_A == <<"A">>
T_B == <<"B">>

CourseCells ==
    { [course_name |-> c, views |-> v] :
        c \in {Str(T_B), Str(T_A), Null}, v \in {N(5), N(3)} }

Families ==
    { [cols |-> BaseCols, cells |-> KeyCells],
      [cols |-> BaseCols \cup {"views"}, cells |-> CourseCells],
      [cols |-> BaseCols, cells |-> EngagementCells],
      [cols |-> BaseCols \cup {"participation"}, cells |-> ParticipationCells],
      [cols |-> BaseCols \cup {"duration"}, cells |-> DurationCells],
      [cols |-> BaseCols, cells |-> WatchCells],
      [cols |-> BaseCols, cells |-> GenderCells],
      [cols |-> BaseCols \ {"student_gender"},
       cells |-> {[student_gender |-> Null], [student_gender |-> Str(<<"F">>)]}],
      [cols |-> BaseCols \cup {"views", "participation", "duration"},
       cells |-> MixedCells],
      [cols |-> {"student_gender", "views", "engagement", "published_at",
                 "duration", "Metadata"},
       cells |-> MixedCells] }

\* nothing written by this run: each file is the list of what the run wrote
\* to it
NotSaved == [parquet |-> <<>>, csv |-> <<>>, kpi_summary |-> <<>>]

TableOf(F, pick) ==
    [cols |-> F.cols, rows |-> [i \in 1..Len(pick) |-> RowWith(i, pick[i])]]

\* tables of more courses than top_courses_by_views keeps, one row a course:
\* the views all differ and rise, all differ and fall, or are equal two by two
ViewPatterns == {"rising", "falling", "pairs"}

WideViews(n, i, pat) ==
    CASE pat = "rising" -> N(i)
      [] pat = "falling" -> N(n - i)
      [] pat = "pairs" -> N(i \div 2)

WideTable(n, pat) ==
    TableOf([cols |-> BaseCols \cup {"views"}],
            [i \in 1..n |-> [course_name |-> Str(<<"c">> \o NatText(i)),
                             student_age |-> N(20 + (i % 2)),
                             views |-> WideViews(n, i, pat)]])

WideTables == {WideTable(n, pat) : n \in {TopN + 1, TopN + 2}, pat \in ViewPatterns}

InitClean ==
    /\ pc = "drop_metadata"
    /\ \/ \E F \in Families, n \in 1..MaxRows :
             \E pick \in [1..n -> F.cells] : arg_df = TableOf(F, pick)
       \/ arg_df \in WideTables
    /\ df = arg_df
    /\ median_watch = Null
    /\ cap_q = [c \in {"watch_time_sec", "duration_sec", "views"} |-> NoQuantiles]
    /\ processed = NotSaved
    /\ DurIdle /\ UnifyIdle /\ DagIdle

\* steps 1 and 2
StepDropMetadata ==
    /\ pc = "drop_metadata"
    /\ df' = DropMetadata(df)
    /\ pc' = "gender"
    /\ UNCHANGED <<arg_df, processed, median_watch, cap_q, durVars, unifyVars, dagVars>>

\* step 3
StepGender ==
    /\ pc = "gender"
    /\ df' = NormalizeGender(df)
    /\ pc' = "coerce"
    /\ UNCHANGED <<arg_df, processed, median_watch, cap_q, durVars, unifyVars, dagVars>>

\* step 4
StepCoerce ==
    /\ pc = "coerce"
    /\ df' = CoerceNumeric(df)
    /\ pc' = "duration"
    /\ UNCHANGED <<arg_df, processed, median_watch, cap_q, durVars, unifyVars, dagVars>>

\* step 5
StepDuration ==
    /\ pc = "duration"
    /\ IF DurationRaises(df)
       THEN pc' = "raised" /\ df' = df
       ELSE pc' = "watch_time" /\ df' = NormalizeDuration(df)
    /\ UNCHANGED <<arg_df, processed, median_watch, cap_q, durVars, unifyVars, dagVars>>

\* step 6
StepWatchTime ==
    /\ pc = "watch_time"
    /\ median_watch' = (IF Has(df, "watch_time") THEN MedianWatch2(df) ELSE Null)
    /\ df' = NormalizeWatchTime(df)
    /\ pc' = "timestamp"
    /\ UNCHANGED <<arg_df, processed, cap_q, durVars, unifyVars, dagVars>>

\* step 7
StepTimestamp ==
    /\ pc = "timestamp"
    /\ df' = ParseTimestamp(df)
    /\ pc' = "student_id"
    /\ UNCHANGED <<arg_df, processed, median_watch, cap_q, durVars, unifyVars, dagVars>>

\* step 8
StepStudentId ==
    /\ pc = "student_id"
    /\ df' = EnsureStudentId(df)
    /\ pc' = "features"
    /\ UNCHANGED <<arg_df, processed, median_watch, cap_q, durVars, unifyVars, dagVars>>

\* step 9
StepFeatures ==
    /\ pc = "features"
    /\ df' = DeriveFeatures(df)
    /\ pc' = "dedup"
    /\ UNCHANGED <<arg_df, processed, median_watch, cap_q, durVars, unifyVars, dagVars>>

\* step 10
StepDedup ==
    /\ pc = "dedup"
    /\ df' = DropDuplicates(df)
    /\ pc' = "cap"
    /\ UNCHANGED <<arg_df, processed, median_watch, cap_q, durVars, unifyVars, dagVars>>

\* step 11
StepCap ==
    /\ pc = "cap"
    /\ cap_q' = [c \in DOMAIN cap_q |-> CapQuantiles(df, c)]
    /\ df' = CapOutliers(df)
    /\ pc' = "fill"
    /\ UNCHANGED <<arg_df, processed, median_watch, durVars, unifyVars, dagVars>>

\* step 12 and the return
StepFill ==
    /\ pc = "fill"
    /\ df' = FillMissing(df)
    /\ pc' = "done"
    /\ UNCHANGED <<arg_df, processed, median_watch, cap_q, durVars, unifyVars, dagVars>>

\* ------------------------------------------------------------ save_outputs
RECURSIVE SumSeq(_)
SumSeq(s) == IF s = <<>> THEN 0 ELSE Head(s) + SumSeq(Tail(s))

\* the keys of df.groupby("course_name"): a missing course_name is no key
CourseNames(T) ==
    {T.rows[i]["course_name"] : i \in {j \in 1..Len(T.rows) : ~IsNull(T.rows[j]["course_name"])}}

\* ["views"].sum() of one group; a missing value adds nothing
ViewsSum(T, c) ==
    SumSeq(NonNull(SelectSeq(T.rows, LAMBDA r : r["course_name"] = c), "views"))

Groups(T) == {[course_name |-> c, views |-> ViewsSum(T, c)] : c \in CourseNames(T)}

\* sort_values(ascending=False) with the default kind="quicksort", which is
\* not stable: the sums come in descending order, and groups of equal sums
\* in any order
RECURSIVE Descending(_)
Descending(G) ==
    IF G = {} THEN {<<>>}
    ELSE UNION { { <<g>> \o rest : rest \in Descending(G \ {g}) } :
                 g \in {h \in G : \A k \in G : k.views <= h.views} }

\* a faulty variant of FirstTopN: every group is kept
WholeList(s) == s

FirstTopN(s) == SubSeq(s, 1, IF Len(s) < TopN THEN Len(s) ELSE TopN)

\* the values kpi["top_courses_by_views"] can take, as the list of the
\* dict's items in their order
TopCoursesByViews(T) ==
    IF Has(T, "course_name") /\ Has(T, "views")
    THEN {FirstTopN(s) : s \in Descending(Groups(T))}
    ELSE {<<>>}

\* int(NaN) raises ValueError: the median of a student_age column with no
\* value in it
MedianAgeRaises(T) == Has(T, "student_age") /\ AllNull(T, "student_age")

MedianAge(T) ==
    IF Has(T, "student_age")
    THEN Num(IntOfMedian(Median2(NonNull(T.rows, "student_age"))))
    ELSE Null

\* nunique() counts the distinct values that are there (a count, not in
\* hundredths)
UniqueStudents(T) ==
    IF Has(T, "student_id")
    THEN Num(Cardinality({T.rows[i]["student_id"] :
                 i \in {j \in 1..Len(T.rows) : ~IsNull(T.rows[j]["student_id"])}}))
    ELSE Null

\* float(mean(skipna=True)), kept as the list of the values averaged; the
\* mean of no value is NaN and raises nothing
AvgCompletionRate(T) ==
    IF Has(T, "completion_rate")
    THEN [t |-> "mean",
          v |-> SelectSeq([i \in 1..Len(T.rows) |-> T.rows[i]["completion_rate"]],
                          LAMBDA x : ~IsNull(x))]
    ELSE Null

Kpi(T, top) ==
    [rows |-> Len(T.rows),
     unique_students |-> UniqueStudents(T),
     avg_completion_rate |-> AvgCompletionRate(T),
     median_age |-> MedianAge(T),
     top_courses_by_views |-> top]

\* df.to_parquet(parquet_path, index=False)
SaveParquet ==
    /\ pc = "done"
    /\ processed' = [processed EXCEPT !.parquet = <<df>>]
    /\ pc' = "to_csv"
    /\ UNCHANGED <<arg_df, df, median_watch, cap_q, durVars, unifyVars, dagVars>>

\* df.to_csv(csv_path, index=False)
SaveCsv ==
    /\ pc = "to_csv"
    /\ processed' = [processed EXCEPT !.csv = <<df>>]
    /\ pc' = "kpi"
    /\ UNCHANGED <<arg_df, df, median_watch, cap_q, durVars, unifyVars, dagVars>>

\* the kpi dict and json.dump
SaveKpi ==
    /\ pc = "kpi"
    /\ ~MedianAgeRaises(df)
    /\ \E top \in TopCoursesByViews(df) :
          processed' = [processed EXCEPT !.kpi_summary = <<Kpi(df, top)>>]
    /\ pc' = "saved"
    /\ UNCHANGED <<arg_df, df, median_watch, cap_q, durVars, unifyVars, dagVars>>

\* the kpi dict raises and the ValueError ends main
SaveKpiRaises ==
    /\ pc = "kpi"
    /\ MedianAgeRaises(df)
    /\ pc' = "save_raised"
    /\ UNCHANGED <<arg_df, df, median_watch, cap_q, processed, durVars, unifyVars,
                   dagVars>>

NextClean ==
    \/ StepDropMetadata
    \/ StepGender
    \/ StepCoerce
    \/ StepDuration
    \/ StepWatchTime
    \/ StepTimestamp
    \/ StepStudentId
    \/ StepFeatures
    \/ StepDedup
    \/ StepCap
    \/ StepFill
    \/ SaveParquet
    \/ SaveCsv
    \/ SaveKpi
    \/ SaveKpiRaises

SpecClean == InitClean /\ [][NextClean]_vars

\* ------------------------------------------------------------ claims, cleaner
RowsOf(T) == {T.rows[i] : i \in 1..Len(T.rows)}

NamesOf(T) == {T.rows[i].name : i \in 1..Len(T.rows)}

\* the rows keep the order they had
InOrder(T) ==
    \A k, l \in 1..Len(T.rows) : k < l => T.rows[k].name < T.rows[l].name

HasNullKey(T, r) == \E c \in KeyCols(T) : IsNull(r[c])

\* what the documented rule keeps: a row with a missing key value, and the
\* first row of every fully present key
KeptAsDocumented(T) ==
    { T.rows[i] : i \in { i \in 1..Len(T.rows) :
        \/ HasNullKey(T, T.rows[i])
        \/ ~\E j \in 1..(i - 1) : KeyOf(T, T.rows[j]) = KeyOf(T, T.rows[i]) } }

\* C2 as stated: rows with an identical, fully present (student_id,
\* course_name, timestamp) collapse to their first occurrence, and a row with
\* a missing key value is never removed by deduplication.
C2_NullKeysExempt ==
    [][pc = "dedup" =>
         /\ RowsOf(df') = KeptAsDocumented(df)
         /\ Len(df'.rows) = Cardinality(KeptAsDocumented(df))
         /\ InOrder(df')]_vars

\* C2 as amended: after deduplication no two rows have the same
\* (student_id, course_name, timestamp), two missing values of a key column
\* counting as the same value; what is left are rows of the table in their
\* order, and of every key the first row that had it.
C2_DedupKeepsFirstOfKey ==
    [][pc = "dedup" =>
         /\ df'.cols = df.cols
         /\ RowsOf(df') \subseteq RowsOf(df)
         /\ InOrder(df')
         /\ \A k, l \in 1..Len(df'.rows) :
               k # l => KeyOf(df, df'.rows[k]) # KeyOf(df, df'.rows[l])
         /\ \A r \in RowsOf(df) : \E kept \in RowsOf(df') :
               /\ KeyOf(df, kept) = KeyOf(df, r)
               /\ kept.name <= r.name]_vars

\* C2: deduplication has removed a row whose timestamp is missing
C2_WitnessNullKeyRowRemoved ==
    /\ pc = "cap"
    /\ \E i \in 1..Len(arg_df.rows) :
          /\ arg_df.rows[i].name \notin NamesOf(df)
          /\ IsNull(arg_df.rows[i].timestamp)
          /\ ~IsNull(arg_df.rows[i].student_id)

CappedSet == {capped_columns[i] : i \in 1..Len(capped_columns)}

WithinQuantiles(x, q) == IsNum(x) /\ q.low <= x.v /\ x.v <= q.high

\* C3 as stated: in the table clean_dataframe returns, every value of
\* watch_time_sec, duration_sec and views lies within [1st percentile, 99th
\* percentile] of the column's non-null values as they were before capping.
C3_FinalWithinPercentiles ==
    pc = "done" =>
        \A c \in CappedSet : (Has(df, c) /\ cap_q[c].set) =>
            \A r \in RowsOf(df) : WithinQuantiles(r[c], cap_q[c])

\* C3 as amended: after the capping step every non-null value of a capped
\* column lies within [1st percentile, 99th percentile] of the column's
\* non-null values before capping; the missing-value step then changes only the
\* missing values, to 0, so that a value of the returned table lies within the
\* range or is such a 0.
C3_CappedThenFilled ==
    /\ [](pc \in {"fill", "done"} =>
            \A c \in CappedSet : (Has(df, c) /\ cap_q[c].set) =>
                \A r \in RowsOf(df) :
                    \/ WithinQuantiles(r[c], cap_q[c])
                    \/ pc = "fill" /\ IsNull(r[c])
                    \/ pc = "done" /\ r[c] = Num(0))
    /\ [][pc = "fill" =>
            \A c \in CappedSet : Has(df, c) =>
                \A i \in 1..Len(df.rows) :
                    df'.rows[i][c] =
                        IF IsNull(df.rows[i][c]) THEN Num(0) ELSE df.rows[i][c]]_vars

\* C3: a value has been pulled in to an interpolated percentile
C3_WitnessClipped ==
    /\ pc = "done"
    /\ \E c \in CappedSet : \E r \in RowsOf(df) :
          /\ Has(df, c) /\ cap_q[c].set
          /\ r[c] = Num(cap_q[c].high)
          /\ cap_q[c].high % Hundred # 0

ExpectedGender(T, r) ==
    IF Has(T, "student_gender")
    THEN Str((CHOOSE g \in GenderCases : g[1] = r.student_gender)[2])
    ELSE Str(T_unknown)

\* C5: with or without a student_gender column, every row of the table
\* clean_dataframe works on and returns has student_gender in {female, male,
\* unknown} once step 3 has run: the case-folded, trimmed aliases of female and
\* male give female and male, everything else (1, 0, a missing value) unknown.
C5_GenderClosed ==
    pc \notin {"drop_metadata", "gender"} =>
        \A r \in RowsOf(df) :
            /\ r.student_gender \in {Str(T_female), Str(T_male), Str(T_unknown)}
            /\ r.student_gender = ExpectedGender(arg_df, arg_df.rows[r.name + 1])

\* C5: the rows "F", "Homme", "1" have become female, male, unknown
C5_WitnessThreeSurveyRows ==
    /\ pc = "done"
    /\ Len(df.rows) = 3
    /\ arg_df.rows[1].student_gender = Str(<<"F">>)
    /\ arg_df.rows[2].student_gender = Str(<<"H", "o", "m", "m", "e">>)
    /\ arg_df.rows[3].student_gender = Str(<<"1">>)
    /\ df.rows[1].student_gender = Str(T_female)
    /\ df.rows[2].student_gender = Str(T_male)
    /\ df.rows[3].student_gender = Str(T_unknown)

NoDuration(T, r) ==
    ~Has(T, "duration_sec") \/ IsNull(r.duration_sec) \/ r.duration_sec = Num(0)

\* C6: completion_rate is never +inf or -inf, and right after the features
\* are derived it is missing in every row whose duration_sec is zero or
\* missing, whatever watch_time_sec is.
C6_CompletionNeverInfinite ==
    /\ \A r \in RowsOf(df) : ~IsInf(r.completion_rate)
    /\ pc = "dedup" =>
          \A r \in RowsOf(df) : NoDuration(df, r) => IsNull(r.completion_rate)

\* C6: a positive watch time over a zero duration has given a missing rate
C6_WitnessZeroDuration ==
    /\ pc = "dedup"
    /\ \E r \in RowsOf(df) :
          /\ r.duration_sec = Num(0)
          /\ IsNum(r.watch_time_sec) /\ r.watch_time_sec.v > 0
          /\ IsNull(r.completion_rate)

CountBelow(vals, a) == Cardinality({i \in 1..Len(vals) : vals[i] < a})
CountUpTo(vals, a) == Cardinality({i \in 1..Len(vals) : vals[i] <= a})

\* the k-th smallest of a list of numbers
KthSmallest(vals, k) ==
    CHOOSE a \in {vals[i] : i \in 1..Len(vals)} :
        CountBelow(vals, a) < k /\ k <= CountUpTo(vals, a)

\* twice the median: the sum of the two middle values (the middle one twice)
TwiceMedian(vals) ==
    KthSmallest(vals, (Len(vals) + 1) \div 2)
        + KthSmallest(vals, (Len(vals) \div 2) + 1)

\* C8: the watch-time unit is resolved for the table as a whole: when the
\* median of the non-null watch_time values is positive and below 100,
\* watch_time_sec = watch_time * 60 in every row, otherwise (median >= 100,
\* median <= 0, nothing non-null) watch_time_sec = watch_time in every row.
C8_WatchUnitTableWide ==
    (pc = "timestamp" /\ Has(df, "watch_time")) =>
        LET vals == NonNull(df.rows, "watch_time")
            minutes == /\ vals # <<>>
                       /\ TwiceMedian(vals) > 0
                       /\ TwiceMedian(vals) < 2 * MinutesLimit * Hundred
        IN /\ Has(df, "watch_time_sec")
           /\ \A r \in RowsOf(df) :
                 r.watch_time_sec =
                     IF minutes /\ IsNum(r.watch_time)
                     THEN Num(r.watch_time.v * 60)
                     ELSE r.watch_time

\* C8: a median of 72.5 has made the row with watch_time 100 read 6000 seconds
C8_WitnessMinutes ==
    /\ pc = "timestamp"
    /\ \E r \in RowsOf(df) :
          r.watch_time = N(100) /\ r.watch_time_sec = N(6000)

\* ====================================================================
\* unify_schema.py
\* ====================================================================
\* A frame is [cols, rows, raises]: rows are records of the column cells and of
\* name, the index label; raises tells that unify_columns raises on the frame
\* (a column label that is not a text has no strip()).  A cell of a nested
\* column is a list of objects.
List(s) == [t |-> "list", v |-> s]

\* df[c] = ..., which adds the column when the frame has none of that label
SetCol(T, c, f(_)) ==
    [cols |-> T.cols \cup {c},
     rows |-> [i \in 1..Len(T.rows) |->
                 LET r == T.rows[i]
                 IN [d \in DOMAIN r \cup {c} |-> IF d = c THEN f(r) ELSE r[d]]]]

IsList(x) == x.t = "list"

\* [c.strip() for c in df.columns], on the labels the raw files use
LabelStrip(c) ==
    CASE c = "User_ID " -> "User_ID"
      [] OTHER -> c

\* c.lower(), on the labels the raw files use
LabelLower(c) ==
    CASE c = "User_ID" -> "user_id"
      [] c = "Gender" -> "gender"
      [] c = "Title" -> "title"
      [] OTHER -> c

\* the frame with its labels stripped
StripLabels(T) ==
    [cols |-> {LabelStrip(c) : c \in T.cols},
     rows |-> [i \in 1..Len(T.rows) |->
                 LET r == T.rows[i]
                 IN [c \in {LabelStrip(d) : d \in T.cols} \cup {"name"} |->
                       IF c = "name" THEN r.name
                       ELSE r[CHOOSE d \in T.cols : LabelStrip(d) = c]]]]

NoColumn == ""

\* the label of the first variant that some column matches without case
find_column(cols, variants) ==
    LET hits == {i \in 1..Len(variants) :
                    \E c \in cols : LabelLower(c) = variants[i]}
        first == CHOOSE i \in hits : \A j \in hits : i <= j
    IN IF hits = {} THEN NoColumn
       ELSE CHOOSE c \in cols : LabelLower(c) = variants[first]

\* the mapping attempts, in the order the code makes them
Attempts ==
    << [variants |-> <<"student_id", "user_id", "id", "student">>,
        target |-> "student_id"],
       [variants |-> <<"gender", "sex", "student_gender">>,
        target |-> "student_gender"],
       [variants |-> <<"age", "student_age", "years">>,
        target |-> "student_age"],
       [variants |-> <<"course_id", "course", "course_name", "title">>,
        target |-> "course_name"],
       [variants |-> <<"watch_time", "watch_seconds", "watch_minutes", "watch">>,
        target |-> "watch_time"],
       [variants |-> <<"views", "view_count">>,
        target |-> "views"],
       [variants |-> <<"duration", "duration_sec", "duration_seconds">>,
        target |-> "duration_sec"],
       [variants |-> <<"engagement", "engagement_score", "engagement_rate">>,
        target |-> "engagement"],
       [variants |-> <<"timestamp", "time", "published_at", "date", "datetime">>,
        target |-> "timestamp"] >>

\* mapping[col], or col itself when no attempt found it
Mapped(cols, c) ==
    LET found == {k \in 1..Len(Attempts) : find_column(cols, Attempts[k].variants) = c}
    IN IF found = {} THEN c
       ELSE Attempts[CHOOSE k \in found : \A j \in found : j <= k].target

\* df.rename(columns=mapping)
Rename(T) ==
    LET mapping == {<<c, Mapped(T.cols, c)>> : c \in T.cols}
        new == {m[2] : m \in mapping}
    IN [cols |-> new,
        rows |-> [i \in 1..Len(T.rows) |->
                    LET r == T.rows[i]
                    IN [c \in new \cup {"name"} |->
                          IF c = "name" THEN r.name
                          ELSE r[(CHOOSE m \in mapping : m[2] = c)[1]]]]]

required ==
    <<"student_id", "student_gender", "student_age", "course_name",
      "watch_time", "duration_sec", "engagement", "timestamp">>

\* for c in required: if c not in df.columns: df[c] = pd.NA
RECURSIVE AddRequired(_, _)
AddRequired(T, k) ==
    IF k > Len(required) THEN T
    ELSE AddRequired(IF Has(T, required[k]) THEN T
                     ELSE SetCol(T, required[k], LAMBDA r : Null), k + 1)

\* pd.to_numeric(df[numcol], errors="coerce"); a column holding a list makes
\* it raise, and the column then stays as it is
UnifyNumeric(x) == IF IsStr(x) THEN ToNumeric(x.v) ELSE x

numcols == <<"watch_time", "duration_sec", "engagement", "student_age", "views">>

RECURSIVE CoerceNumcols(_, _)
CoerceNumcols(T, k) ==
    IF k > Len(numcols) THEN T
    ELSE LET c == numcols[k]
         IN CoerceNumcols(
              IF Has(T, c) /\ \A i \in 1..Len(T.rows) : ~IsList(T.rows[i][c])
              THEN SetCol(T, c, LAMBDA r : UnifyNumeric(r[c]))
              ELSE T, k + 1)

\* df["timestamp"] = pd.to_datetime(df["timestamp"], errors="coerce")
UnifyTimestamp(T) ==
    IF \A i \in 1..Len(T.rows) : ~IsList(T.rows[i]["timestamp"])
    THEN SetCol(T, "timestamp", LAMBDA r : ToDatetime(r["timestamp"]))
    ELSE T

\* df["source_file"] = df["_source_file"], else df.get("source", pd.NA)
SourceFile(T) ==
    IF Has(T, "_source_file")
    THEN SetCol(T, "source_file", LAMBDA r : r["_source_file"])
    ELSE IF Has(T, "source")
    THEN SetCol(T, "source_file", LAMBDA r : r["source"])
    ELSE SetCol(T, "source_file", LAMBDA r : Null)

T_NA == <<"<", "N", "A", ">">>

\* str() of a source_file cell: pd.NA prints as <NA>, a missing cell of a
\* source column as nan
SourceText(T, x) ==
    IF IsStr(x) THEN x.v
    ELSE IF Has(T, "source") /\ ~Has(T, "_source_file") THEN T_nan ELSE T_NA

\* f"{row.get('source_file','unknown')}_{row.name}"
RowSyntheticId(T, r) ==
    Str(SourceText(T, r["source_file"]) \o <<"_">> \o NatText(r.name))

\* if df["student_id"].isna().all(): df["student_id"] = df.apply(...)
SynthesizeIds(T) ==
    IF AllNull(T, "student_id")
    THEN SetCol(T, "student_id", LAMBDA r : RowSyntheticId(T, r))
    ELSE T

\* unify_columns; the order of the columns of the result is not modelled
unify_columns(T) ==
    SynthesizeIds(SourceFile(UnifyTimestamp(
        CoerceNumcols(AddRequired(Rename(StripLabels(T)), 1), 1))))

\* ------------------------------------------------------------ loaders
\* pd.read_csv / pd.read_json of a readable file, then the _source_file column
ReadFile(f) ==
    [cols |-> f.frame.cols \cup {"_source_file"},
     rows |-> [i \in 1..Len(f.frame.rows) |->
                 LET r == f.frame.rows[i]
                 IN [c \in f.frame.cols \cup {"name", "_source_file"} |->
                       IF c = "_source_file" THEN Str(f.name) ELSE r[c]]],
     raises |-> f.frame.raises]

RECURSIVE ReadAll(_)
ReadAll(files) ==
    IF files = <<>> THEN <<>>
    ELSE (IF Head(files).readable THEN <<ReadFile(Head(files))>> ELSE <<>>)
         \o ReadAll(Tail(files))

\* a loop that gives up at the first file it cannot read
RECURSIVE ReadUntilError(_)
ReadUntilError(files) ==
    IF files = <<>> \/ ~Head(files).readable THEN <<>>
    ELSE <<ReadFile(Head(files))>> \o ReadUntilError(Tail(files))

LoadKaggleStopAtError(dir) == IF ~dir.exists THEN <<>> ELSE ReadUntilError(dir.files)

\* a file that cannot be read is logged and the loop goes on
load_kaggle(dir) == IF ~dir.exists THEN <<>> ELSE ReadAll(dir.files)

\* None is the empty sequence, a frame the sequence of that frame
load_simulated(path) ==
    IF ~path.exists THEN <<>>
    ELSE IF path.file.readable THEN <<ReadFile(path.file)>> ELSE <<>>

load_youtube(path) ==
    IF ~path.exists THEN <<>>
    ELSE IF path.file.readable THEN <<ReadFile(path.file)>> ELSE <<>>

\* ------------------------------------------------------------ main
\* youtube_df["items"].explode(): one entry per element of each list, under the
\* label of the row it came from; a cell that is no list stays one entry
RECURSIVE Explode(_, _)
Explode(T, i) ==
    IF i > Len(T.rows) THEN <<>>
    ELSE LET r == T.rows[i]
             x == r["items"]
         IN (IF IsList(x)
             THEN [k \in 1..Len(x.v) |-> [name |-> r.name, obj |-> x.v[k], isobj |-> TRUE]]
             ELSE <<[name |-> r.name, obj |-> x, isobj |-> FALSE]>>)
            \o Explode(T, i + 1)

\* '"items" in youtube_df.columns and isinstance(youtube_df.loc[0, "items"],
\* (list, dict))'; the nested cells of the model are lists
ItemsNested(T) == Has(T, "items") /\ IsList(T.rows[1]["items"])

\* pd.json_normalize of the exploded column raises on an entry that is no
\* object, and the frame then stays as it was loaded
FlattenRaises(T) == \E k \in 1..Len(Explode(T, 1)) : ~Explode(T, 1)[k].isobj

\* pd.json_normalize(...): one row per object and one column per key; the rows
\* are labelled afresh, or keep the labels explode gave them, with the pandas
\* at hand
Flatten(T, keeps_labels) ==
    LET ex == Explode(T, 1)
        keys == UNION {DOMAIN ex[k].obj : k \in 1..Len(ex)}
    IN [cols |-> keys,
        rows |-> [k \in 1..Len(ex) |->
                    [c \in keys \cup {"name"} |->
                       IF c = "name"
                       THEN (IF keeps_labels THEN ex[k].name ELSE k - 1)
                       ELSE IF c \in DOMAIN ex[k].obj THEN ex[k].obj[c] ELSE Null]],
        raises |-> T.raises]

\* the frame unify_columns is given for the events batch
Flattened(T, keeps_labels) ==
    IF ItemsNested(T) /\ ~FlattenRaises(T) THEN Flatten(T, keeps_labels) ELSE T

RECURSIVE ConcatRows(_, _)
ConcatRows(frames, cols) ==
    IF frames = <<>> THEN <<>>
    ELSE LET T == Head(frames)
         IN [i \in 1..Len(T.rows) |->
               LET r == T.rows[i]
               IN [c \in cols |-> IF c \in T.cols THEN r[c] ELSE Null]]
            \o ConcatRows(Tail(frames), cols)

\* pd.concat(all_frames, ignore_index=True, sort=False): the rows of the frames
\* in order, labelled afresh, over the union of their columns
Concat(frames) ==
    LET cols == UNION {frames[k].cols : k \in 1..Len(frames)}
        rows == ConcatRows(frames, cols)
    IN [cols |-> cols,
        rows |-> [i \in 1..Len(rows) |->
                    [c \in cols \cup {"name"} |->
                       IF c = "name" THEN i - 1 ELSE rows[i][c]]]]

NoFile == [cols |-> {}, rows |-> <<>>, written |-> FALSE]
Written(T) == [cols |-> T.cols, rows |-> T.rows, written |-> TRUE]

NoStats == [k \in {} |-> 0]
SetStat(s, key, n) == [k \in DOMAIN s \cup {key} |-> IF k = key THEN n ELSE s[k]]

\* ------------------------------------------------------------ raw files
MaxFiles == 2
MaxBatchRows == 2

T_x == <<"x">>
T_21 == <<"2", "1">>
T_F == <<"F">>
T_Male == <<"M", "a", "l", "e">>
T_PT1M == <<"P", "T", "1", "M">>
T_intro == <<"i", "n", "t", "r", "o">>

\* a survey file with an identifier column: none of its cells missing, the
\* first one missing, or all of them
IdCell(pattern, i) ==
    IF pattern = "all" \/ (pattern = "first" /\ i = 1) THEN Null
    ELSE Str(<<"u">> \o NatText(i))

SurveyWithId(pattern) ==
    [cols |-> {"User_ID ", "Gender", "age"},
     rows |-> [i \in 1..MaxBatchRows |->
                 [c \in {"name", "User_ID ", "Gender", "age"} |->
                    CASE c = "name" -> i - 1
                      [] c = "User_ID " -> IdCell(pattern, i)
                      [] c = "Gender" -> Str(T_F)
                      [] c = "age" -> IF i = 1 THEN Str(T_21) ELSE Str(T_x)]],
     raises |-> FALSE]

SurveyNoId ==
    [cols |-> {"Gender", "age"},
     rows |-> [i \in 1..MaxBatchRows |->
                 [name |-> i - 1, Gender |-> Str(T_F), age |-> Num(21 * Hundred)]],
     raises |-> FALSE]

\* the columns faker_generator.py writes that the unifier looks at
Simulated ==
    [cols |-> {"age", "gender", "course", "participation"},
     rows |-> [i \in 1..MaxBatchRows |->
                 [name |-> i - 1, age |-> Num(21 * Hundred), gender |-> Str(T_Male),
                  course |-> Str(T_math), participation |-> Num(i * Hundred)]],
     raises |-> FALSE]

EventsFlat ==
    [cols |-> {"Title", "views", "duration", "published_at"},
     rows |-> [i \in 1..MaxBatchRows |->
                 [name |-> i - 1, Title |-> Str(T_intro), views |-> Num(i * Hundred),
                  duration |-> Str(T_PT1M), published_at |-> Num(i)]],
     raises |-> FALSE]

Item(with_id, i, k) ==
    IF with_id
    THEN [Title |-> Str(T_intro), views |-> Num(k * Hundred),
          id |-> Str(<<"v">> \o NatText(i) \o NatText(k))]
    ELSE [Title |-> Str(T_intro), views |-> Num(k * Hundred)]

\* the items per record of a nested events file; 0 is a record without items
ItemLayouts == {<<1>>, <<2>>, <<1, 2>>, <<2, 0>>, <<0, 1>>}

EventsNested(layout, with_id) ==
    [cols |-> {"items"},
     rows |-> [i \in 1..Len(layout) |->
                 [name |-> i - 1,
                  items |-> IF layout[i] = 0 THEN Null
                            ELSE List([k \in 1..layout[i] |-> Item(with_id, i, k)])]],
     raises |-> FALSE]

Raising(T) == [T EXCEPT !.raises = TRUE]

SurveyFrames ==
    {SurveyWithId(p) : p \in {"none", "first", "all"}}
        \cup {SurveyNoId, Raising(SurveyNoId)}
SimulatedFrames == {Simulated, Raising(Simulated)}
EventsFrames ==
    {EventsFlat, Raising(EventsFlat)}
        \cup {EventsNested(l, w) : l \in ItemLayouts, w \in BOOLEAN}

KaggleName(i) == <<Lowers[i]>> \o <<".", "c", "s", "v">>
T_sim ==
    <<"s", "t", "u", "d", "e", "n", "t", "s", "_">>
        \o <<"s", "y", "n", "t", "h", "e", "t", "i", "c", ".", "c", "s", "v">>
T_videos == <<"v", "i", "d", "e", "o", "s", ".", "j", "s", "o", "n">>

Unreadable(name) ==
    [name |-> name, readable |-> FALSE,
     frame |-> [cols |-> {}, rows |-> <<>>, raises |-> FALSE]]
Readable(name, T) == [name |-> name, readable |-> TRUE, frame |-> T]
FilesNamed(name, frames) ==
    {Unreadable(name)} \cup {Readable(name, T) : T \in frames}
Absent == [exists |-> FALSE, file |-> Unreadable(<<>>)]
Present(f) == [exists |-> TRUE, file |-> f]

\* the survey folder: its files in the order glob lists them
KaggleDir(n, pick) ==
    [exists |-> TRUE,
     files |-> [i \in 1..n |-> [pick[i] EXCEPT !.name = KaggleName(i)]]]
NoKaggleDir == [exists |-> FALSE, files |-> <<>>]

SourceOptions(name, frames) ==
    {Absent, Present(Unreadable(name))} \cup {Present(Readable(name, T)) : T \in frames}

InitUnify ==
    /\ pc = "load_kaggle"
    /\ \E n \in 0..MaxFiles :
         \E pick \in [1..n -> FilesNamed(<<>>, SurveyFrames)] :
           \E k \in {KaggleDir(n, pick)} \cup (IF n = 0 THEN {NoKaggleDir} ELSE {}) :
             \E s \in SourceOptions(T_sim, SimulatedFrames) :
               \E y \in SourceOptions(T_videos, EventsFrames) :
                 fs = [kaggle |-> k, simulated |-> s, youtube |-> y]
    /\ kaggle_dfs = <<>>
    /\ simulated_df = <<>>
    /\ youtube_df = <<>>
    /\ all_frames = <<>>
    /\ kdf_i = 1
    /\ kaggle_rows = 0
    /\ stats = NoStats
    /\ unified = NoFile
    /\ DurIdle /\ CleanIdle /\ DagIdle

LoadKaggle ==
    /\ pc = "load_kaggle"
    /\ kaggle_dfs' = load_kaggle(fs.kaggle)
    /\ pc' = "load_simulated"
    /\ UNCHANGED <<fs, simulated_df, youtube_df, all_frames, kdf_i, kaggle_rows,
                   stats, unified, durVars, cleanVars, dagVars>>

LoadSimulated ==
    /\ pc = "load_simulated"
    /\ simulated_df' = load_simulated(fs.simulated)
    /\ pc' = "load_youtube"
    /\ UNCHANGED <<fs, kaggle_dfs, youtube_df, all_frames, kdf_i, kaggle_rows,
                   stats, unified, durVars, cleanVars, dagVars>>

LoadYoutube ==
    /\ pc = "load_youtube"
    /\ youtube_df' = load_youtube(fs.youtube)
    /\ pc' = "kaggle"
    /\ UNCHANGED <<fs, kaggle_dfs, simulated_df, all_frames, kdf_i, kaggle_rows,
                   stats, unified, durVars, cleanVars, dagVars>>

\* one turn of 'for kdf in kaggle_dfs', the except clause included
ProcessKaggle ==
    /\ pc = "kaggle"
    /\ kdf_i <= Len(kaggle_dfs)
    /\ LET kdf == kaggle_dfs[kdf_i]
       IN IF kdf.raises
          THEN UNCHANGED <<all_frames, kaggle_rows>>
          ELSE LET u == unify_columns(kdf)
               IN /\ all_frames' = Append(all_frames, u)
                  /\ kaggle_rows' = kaggle_rows + Len(u.rows)
    /\ kdf_i' = kdf_i + 1
    /\ UNCHANGED <<pc, fs, kaggle_dfs, simulated_df, youtube_df, stats, unified,
                   durVars, cleanVars, dagVars>>

\* stats["kaggle_rows"] = kaggle_rows
EndKaggle ==
    /\ pc = "kaggle"
    /\ kdf_i > Len(kaggle_dfs)
    /\ stats' = SetStat(stats, "kaggle_rows", kaggle_rows)
    /\ pc' = "simulated"
    /\ UNCHANGED <<fs, kaggle_dfs, simulated_df, youtube_df, all_frames, kdf_i,
                   kaggle_rows, unified, durVars, cleanVars, dagVars>>

ProcessSimulated ==
    /\ pc = "simulated"
    /\ IF simulated_df # <<>> /\ ~simulated_df[1].raises
       THEN LET u == unify_columns(simulated_df[1])
            IN /\ all_frames' = Append(all_frames, u)
               /\ stats' = SetStat(stats, "simulated_rows", Len(u.rows))
       ELSE /\ stats' = SetStat(stats, "simulated_rows", 0)
            /\ UNCHANGED all_frames
    /\ pc' = "youtube"
    /\ UNCHANGED <<fs, kaggle_dfs, simulated_df, youtube_df, kdf_i, kaggle_rows,
                   unified, durVars, cleanVars, dagVars>>

\* the flattening rebinds youtube_df before unify_columns can raise
ProcessYoutube ==
    /\ pc = "youtube"
    /\ IF youtube_df = <<>>
       THEN /\ stats' = SetStat(stats, "youtube_rows", 0)
            /\ UNCHANGED <<all_frames, youtube_df>>
       ELSE \E keeps_labels \in BOOLEAN :
              LET flat == Flattened(youtube_df[1], keeps_labels)
              IN /\ youtube_df' = <<flat>>
                 /\ IF flat.raises
                    THEN /\ stats' = SetStat(stats, "youtube_rows", 0)
                         /\ UNCHANGED all_frames
                    ELSE LET u == unify_columns(flat)
                         IN /\ all_frames' = Append(all_frames, u)
                            /\ stats' = SetStat(stats, "youtube_rows", Len(u.rows))
    /\ pc' = "concat"
    /\ UNCHANGED <<fs, kaggle_dfs, simulated_df, kdf_i, kaggle_rows, unified,
                   durVars, cleanVars, dagVars>>

\* 'if len(all_frames) == 0'
NoFrames(frames) == Len(frames) = 0

\* sys.exit(1), before anything is written
ExitNoData ==
    /\ pc = "concat"
    /\ NoFrames(all_frames)
    /\ pc' = "exit_1"
    /\ UNCHANGED <<unifyVars, durVars, cleanVars, dagVars>>

\* pd.concat, to_csv and 'return 0'
ConcatAndSave ==
    /\ pc = "concat"
    /\ ~NoFrames(all_frames)
    /\ unified' = Written(Concat(all_frames))
    /\ pc' = "exit_0"
    /\ UNCHANGED <<fs, kaggle_dfs, simulated_df, youtube_df, all_frames, kdf_i,
                   kaggle_rows, stats, durVars, cleanVars, dagVars>>

NextUnify ==
    \/ LoadKaggle
    \/ LoadSimulated
    \/ LoadYoutube
    \/ ProcessKaggle
    \/ EndKaggle
    \/ ProcessSimulated
    \/ ProcessYoutube
    \/ ExitNoData
    \/ ConcatAndSave

SpecUnify == InitUnify /\ [][NextUnify]_vars

\* ------------------------------------------------------------ claims
\* C1: every row of the unified table has a non-null student_id and a
\* non-null source_file, whichever source the row came from.
C1_UnifiedRowsIdentified ==
    unified.written =>
        \A i \in 1..Len(unified.rows) :
            /\ ~IsNull(unified.rows[i]["student_id"])
            /\ ~IsNull(unified.rows[i]["source_file"])

\* the frame a step hands to unify_columns, and the file it was read from
GivenFrame ==
    CASE pc = "kaggle" -> kaggle_dfs[kdf_i]
      [] pc = "simulated" -> simulated_df[1]
      [] pc = "youtube" -> youtube_df'[1]
LoadedFrom ==
    CASE pc = "kaggle" -> kaggle_dfs[kdf_i].rows[1]["_source_file"].v
      [] pc = "simulated" -> simulated_df[1].rows[1]["_source_file"].v
      [] pc = "youtube" -> youtube_df[1].rows[1]["_source_file"].v

\* no identifier column after the mapping, or no cell in it
WithoutIds(T) ==
    LET S == StripLabels(T)
        c == find_column(S.cols, Attempts[1].variants)
    IN c = NoColumn \/ AllNull(S, c)

\* C7: a batch without identifiers gets, row by row, the identifier
\* <file>_<position of the row in the batch>, so that the identifiers of one
\* batch are distinct.
C7_SyntheticIdsFromFile ==
    [][(/\ pc \in {"kaggle", "simulated", "youtube"}
        /\ Len(all_frames') = Len(all_frames) + 1
        /\ WithoutIds(GivenFrame))
       => LET u == all_frames'[Len(all_frames')]
          IN /\ \A k \in 1..Len(u.rows) :
                   u.rows[k]["student_id"]
                       = Str(LoadedFrom \o <<"_">> \o NatText(k - 1))
             /\ \A j, k \in 1..Len(u.rows) :
                   j # k => u.rows[j]["student_id"] # u.rows[k]["student_id"]]_vars

\* the sources on disk, in the order main takes them
SourceFiles ==
    (IF fs.kaggle.exists THEN fs.kaggle.files ELSE <<>>)
        \o (IF fs.simulated.exists THEN <<fs.simulated.file>> ELSE <<>>)
        \o (IF fs.youtube.exists THEN <<fs.youtube.file>> ELSE <<>>)

\* the file was read and its batch went through column unification
Delivered(f) == f.readable /\ ~f.frame.raises

RECURSIVE ItemCount(_, _)
ItemCount(T, i) ==
    IF i > Len(T.rows) THEN 0
    ELSE Len(T.rows[i]["items"].v) + ItemCount(T, i + 1)

\* a nested events file whose every record has items
AllNested(f) ==
    /\ "items" \in f.frame.cols
    /\ \A i \in 1..Len(f.frame.rows) : IsList(f.frame.rows[i]["items"])

\* such a file gives one row per item, any other file one row per record
RowsOfFile(f) ==
    IF AllNested(f) THEN ItemCount(f.frame, 1) ELSE Len(f.frame.rows)

RECURSIVE DeliveredRows(_)
DeliveredRows(files) ==
    IF files = <<>> THEN 0
    ELSE (IF Delivered(Head(files)) THEN RowsOfFile(Head(files)) ELSE 0)
         + DeliveredRows(Tail(files))

RowsFrom(T, name) ==
    Cardinality({i \in 1..Len(T.rows) : T.rows[i]["source_file"] = Str(name)})

C9_WitnessNothingLoaded ==
    /\ pc = "exit_1"
    /\ Len(fs.kaggle.files) = 1
    /\ fs.simulated.exists
    /\ unified = NoFile

\* ====================================================================
\* student_pipeline_dag.py: one run of student_learning_pipeline
\* ====================================================================
\* The tasks, and 'unify_task >> clean_task >> kpi_task'
Tasks == <<"unify_students", "clean_students", "compute_kpis">>
TaskIds == {Tasks[k] : k \in 1..Len(Tasks)}
Position(s) == CHOOSE k \in 1..Len(Tasks) : Tasks[k] = s
Upstream(s) == IF Position(s) = 1 THEN {} ELSE {Tasks[Position(s) - 1]}

\* default_args
Retries == 1
RetryDelayMinutes == 5

\* a rule that starts a task when the tasks upstream of it have merely ended
UpstreamEnded(states, s) ==
    \A u \in Upstream(s) : states[u] \in {"success", "failed", "upstream_failed"}

\* no task is given a trigger_rule: a task is started when every task
\* upstream of it has succeeded
UpstreamDone(states, s) == \A u \in Upstream(s) : states[u] = "success"

\* a task that cannot succeed any more fails the tasks downstream of it
UpstreamLost(states, s) ==
    \E u \in Upstream(s) : states[u] \in {"failed", "upstream_failed"}

\* the attempt that ended was the try_number-th: it is retried while retries
\* are left
RetriesLeft(n) == n <= Retries

Ended(states) ==
    \A s \in TaskIds : states[s] \in {"success", "failed", "upstream_failed"}

InitDag ==
    /\ pc = "dag"
    /\ task_state = [s \in TaskIds |-> "none"]
    /\ try_number = [s \in TaskIds |-> 0]
    /\ phase = [s \in TaskIds |-> "none"]
    /\ waited = [s \in TaskIds |-> 0]
    /\ out \in [TaskIds -> {"absent", "old"}]
    /\ run_state = "running"
    /\ DurIdle /\ CleanIdle /\ UnifyIdle

\* the scheduler starts the first attempt of a task
StartTask(s) ==
    /\ run_state = "running"
    /\ task_state[s] = "none"
    /\ UpstreamDone(task_state, s)
    /\ task_state' = [task_state EXCEPT ![s] = "running"]
    /\ try_number' = [try_number EXCEPT ![s] = @ + 1]
    /\ phase' = [phase EXCEPT ![s] = "reading"]
    /\ UNCHANGED <<pc, waited, out, run_state, durVars, cleanVars, unifyVars>>

\* the command has read its input and opens its output file
BeginWrite(s) ==
    /\ task_state[s] = "running"
    /\ phase[s] = "reading"
    /\ phase' = [phase EXCEPT ![s] = "writing"]
    /\ out' = [out EXCEPT ![s] = "partial"]
    /\ UNCHANGED <<pc, task_state, try_number, waited, run_state,
                   durVars, cleanVars, unifyVars>>

EndWrite(s) ==
    /\ task_state[s] = "running"
    /\ phase[s] = "writing"
    /\ phase' = [phase EXCEPT ![s] = "written"]
    /\ out' = [out EXCEPT ![s] = "new"]
    /\ UNCHANGED <<pc, task_state, try_number, waited, run_state,
                   durVars, cleanVars, unifyVars>>

\* the command returns 0
ExitZero(s) ==
    /\ task_state[s] = "running"
    /\ phase[s] = "written"
    /\ task_state' = [task_state EXCEPT ![s] = "success"]
    /\ phase' = [phase EXCEPT ![s] = "none"]
    /\ UNCHANGED <<pc, try_number, waited, out, run_state,
                   durVars, cleanVars, unifyVars>>

\* the command returns another status, wherever it had got to
ExitNonZero(s) ==
    /\ task_state[s] = "running"
    /\ task_state' = [task_state EXCEPT ![s] =
                        IF RetriesLeft(try_number[s]) THEN "up_for_retry" ELSE "failed"]
    /\ phase' = [phase EXCEPT ![s] = "none"]
    /\ waited' = [waited EXCEPT ![s] = 0]
    /\ UNCHANGED <<pc, try_number, out, run_state, durVars, cleanVars, unifyVars>>

\* a minute of the retry delay goes by
Wait(s) ==
    /\ task_state[s] = "up_for_retry"
    /\ waited[s] < RetryDelayMinutes
    /\ waited' = [waited EXCEPT ![s] = @ + 1]
    /\ UNCHANGED <<pc, task_state, try_number, phase, out, run_state,
                   durVars, cleanVars, unifyVars>>

\* the command is run again, from its first statement
Retry(s) ==
    /\ task_state[s] = "up_for_retry"
    /\ waited[s] = RetryDelayMinutes
    /\ task_state' = [task_state EXCEPT ![s] = "running"]
    /\ try_number' = [try_number EXCEPT ![s] = @ + 1]
    /\ phase' = [phase EXCEPT ![s] = "reading"]
    /\ UNCHANGED <<pc, waited, out, run_state, durVars, cleanVars, unifyVars>>

SkipDownstream(s) ==
    /\ run_state = "running"
    /\ task_state[s] = "none"
    /\ UpstreamLost(task_state, s)
    /\ task_state' = [task_state EXCEPT ![s] = "upstream_failed"]
    /\ UNCHANGED <<pc, try_number, phase, waited, out, run_state,
                   durVars, cleanVars, unifyVars>>

EndRun ==
    /\ run_state = "running"
    /\ Ended(task_state)
    /\ run_state' = IF \A s \in TaskIds : task_state[s] = "success"
                    THEN "success" ELSE "failed"
    /\ UNCHANGED <<pc, task_state, try_number, phase, waited, out,
                   durVars, cleanVars, unifyVars>>

NextDag ==
    \/ \E s \in TaskIds : StartTask(s)
    \/ \E s \in TaskIds : BeginWrite(s)
    \/ \E s \in TaskIds : EndWrite(s)
    \/ \E s \in TaskIds : ExitZero(s)
    \/ \E s \in TaskIds : ExitNonZero(s)
    \/ \E s \in TaskIds : Wait(s)
    \/ \E s \in TaskIds : Retry(s)
    \/ \E s \in TaskIds : SkipDownstream(s)
    \/ EndRun

SpecDag == InitDag /\ [][NextDag]_vars

\* ------------------------------------------------------------ claims
Running(s) == task_state[s] = "running"

\* C10: a stage starts only after the stage before it has succeeded, so no two
\* stages run at once and the cleaner never reads the hand-off file while the
\* unifier writes it; a stage is attempted at most twice, each attempt from
\* its first statement; and when the second attempt fails the run ends failed
\* with no later stage ever started.
C10_SequencedWithOneRetry ==
    /\ \A s \in TaskIds :
          try_number[s] > 0 => \A u \in Upstream(s) : task_state[u] = "success"
    /\ \A s, u \in TaskIds : Running(s) /\ Running(u) => s = u
    /\ Running("clean_students") =>
          /\ phase["unify_students"] = "none"
          /\ out["unify_students"] = "new"
    /\ \A s \in TaskIds : try_number[s] <= Retries + 1
    /\ \A s \in TaskIds :
          task_state[s] = "failed" =>
              /\ try_number[s] = Retries + 1
              /\ \A d \in TaskIds : Position(d) > Position(s) => try_number[d] = 0
              /\ run_state # "success"
    /\ run_state = "failed" =>
          \E s \in TaskIds :
              /\ task_state[s] = "failed"
              /\ \A d \in TaskIds :
                    Position(d) > Position(s) => task_state[d] = "upstream_failed"
    /\ \A s \in TaskIds : task_state[s] = "up_for_retry" => phase[s] = "none"

C10_WitnessSecondFailureEndsRun ==
    /\ run_state = "failed"
    /\ task_state["unify_students"] = "success"
    /\ task_state["clean_students"] = "failed"
    /\ try_number["clean_students"] = 2
    /\ try_number["compute_kpis"] = 0

\* ====================================================================
\* clean_students.py: further claims on clean_dataframe
\* ====================================================================
\* the seconds the documentation gives a duration text of DurationCases
DocumentedSeconds(s) ==
    LET c == CHOOSE d \in DurationCases : d[1] = s
    IN IF c[2] < 0 THEN Null ELSE Num(c[2] * Hundred)

IsDurationCase(x) == IsStr(x) /\ \E d \in DurationCases : d[1] = x.v

\* C12: after the duration step, a row whose duration_sec was missing and
\* whose duration is an ISO-8601 or colon-separated text has that text's
\* seconds in duration_sec (PT1H2M3S gives 3723), an unparsable text gives a
\* missing value, and a row whose duration_sec was given keeps it.
C12_DurationFromText ==
    (pc = "watch_time" /\ Has(arg_df, "duration")) =>
        \A i \in 1..Len(arg_df.rows) :
            LET a == arg_df.rows[i]
                r == df.rows[i]
            IN IsDurationCase(a["duration"]) =>
                  IF Has(arg_df, "duration_sec") /\ IsNum(a["duration_sec"])
                  THEN r["duration_sec"] = a["duration_sec"]
                  ELSE r["duration_sec"] = DocumentedSeconds(a["duration"].v)

\* the cell is the ratio n / d
RECURSIVE Gcd(_, _)
Gcd(a, b) == IF b = 0 THEN a ELSE Gcd(b, a % b)

\* n / d in lowest terms with a positive denominator (d is not 0)
Lowest(n, d) ==
    LET g == Gcd(IF n < 0 THEN 0 - n ELSE n, IF d < 0 THEN 0 - d ELSE d)
        s == IF d < 0 THEN 0 - 1 ELSE 1
    IN <<s * (n \div g), s * (d \div g)>>

IsRatio(x, n, d) == x.t = "frac" /\ Lowest(x.v[1], x.v[2]) = Lowest(n, d)

\* C13 as stated: engagement_rate is engagement / duration_sec in a row whose
\* duration_sec is there and not zero, and the raw engagement in a row whose
\* duration_sec is missing or zero or whose table has no duration_sec.
C13_RateFallsBackPerRow ==
    (pc = "dedup" /\ Has(df, "engagement")) =>
        \A r \in RowsOf(df) :
            IF NoDuration(df, r) THEN r.engagement_rate = r.engagement
            ELSE IF IsNull(r.engagement) THEN IsNull(r.engagement_rate)
            ELSE IsRatio(r.engagement_rate, r.engagement.v, r.duration_sec.v)

\* C13 as the code has it: with a duration_sec column, engagement_rate is
\* engagement / duration_sec, missing where either is missing or duration_sec
\* is zero; without that column it is the raw engagement; without an
\* engagement column there is no engagement_rate.
C13_RateFallsBackPerTable ==
    pc = "dedup" =>
        /\ Has(df, "engagement_rate") <=> Has(df, "engagement")
        /\ Has(df, "engagement") =>
              \A r \in RowsOf(df) :
                  IF ~Has(df, "duration_sec") THEN r.engagement_rate = r.engagement
                  ELSE IF NoDuration(df, r) \/ IsNull(r.engagement)
                  THEN IsNull(r.engagement_rate)
                  ELSE IsRatio(r.engagement_rate, r.engagement.v, r.duration_sec.v)

C13_WitnessNoFallbackInRow ==
    /\ pc = "dedup"
    /\ Has(df, "duration_sec")
    /\ \E r \in RowsOf(df) :
          r.engagement = N(3) /\ IsNull(r.duration_sec) /\ IsNull(r.engagement_rate)
    /\ \E r \in RowsOf(df) :
          r.engagement = N(3) /\ r.duration_sec = N(60)
              /\ IsRatio(r.engagement_rate, 3, 60)

\* completion_rate >= 0.5, a missing rate counting as less
HalfDone(r) ==
    r.completion_rate.t = "frac" /\ 2 * r.completion_rate.v[1] >= r.completion_rate.v[2]

FeaturesIsMetadataName(c) == c \in {"_source_file", "video_metadata"}

FeaturesDropMetadata(T) ==
    [T EXCEPT !.cols = {c \in T.cols : ~FeaturesIsMetadataName(c)}]

\* .astype(str).str.lower().str.strip().replace({"f": "female", "m": "male"})
FeaturesGenderCell(x, isFloat) ==
    LET k == Strip(Lower(AsText(x, isFloat)))
    IN Str(IF k = <<"f">> THEN T_female ELSE IF k = <<"m">> THEN T_male ELSE k)

FeaturesGender(T) ==
    IF Has(T, "student_gender")
    THEN LET fl == IsFloatCol(T.rows, "student_gender")
         IN WithCol(T, "student_gender",
                    LAMBDA r : FeaturesGenderCell(r["student_gender"], fl))
    ELSE T

\* the numeric_cols a table of the model can hold; the three score columns,
\* "score", "hours_studied" and "assignments_completed" are in none of them
numeric_cols == <<"watch_time", "duration_sec", "participation">>

RECURSIVE FeaturesConvert(_, _)
FeaturesConvert(T, cs) ==
    IF cs = <<>> THEN T
    ELSE FeaturesConvert(IF Has(T, Head(cs))
                         THEN WithCol(T, Head(cs), LAMBDA r : UnifyNumeric(r[Head(cs)]))
                         ELSE T,
                         Tail(cs))

\* total_score needs the three score columns; is_engaged as in clean_students
FeaturesEngineer(T) ==
    IF Has(T, "participation")
    THEN WithCol(T, "is_engaged", LAMBDA r : Flag(Positive(r["participation"])))
    ELSE T

\* df.fillna({"student_gender": "unknown", "student_age": median}): a key that
\* is no column is passed over, and so is a median that is NaN
FeaturesFillNamed(T) ==
    LET T1 == IF Has(T, "student_gender")
              THEN WithCol(T, "student_gender",
                           LAMBDA r : FillNa(r["student_gender"], Str(T_unknown)))
              ELSE T
    IN IF Has(T1, "student_age") /\ NonNull(T1.rows, "student_age") # <<>>
       THEN LET m2 == Median2(NonNull(T1.rows, "student_age"))
            IN WithCol(T1, "student_age",
                       LAMBDA r : FillNa(r["student_age"], Num(m2 \div 2)))
       ELSE T1

\* df.fillna(0): every missing cell of every column
FeaturesFillAll(T) ==
    [cols |-> T.cols,
     rows |-> [i \in 1..Len(T.rows) |->
                 LET r == T.rows[i]
                 IN [f \in DOMAIN r |->
                       IF f \in T.cols /\ IsNull(r[f]) THEN Num(0) ELSE r[f]]]]

FeaturesFamilies ==
    { [cols |-> BaseCols, cells |-> KeyCells],
      [cols |-> BaseCols, cells |-> GenderCells],
      [cols |-> BaseCols \cup {"views", "participation", "duration"},
       cells |-> MixedCells] }

InitFeatures ==
    /\ pc = "f_drop"
    /\ \E F \in FeaturesFamilies, n \in 1..MaxRows :
          \E pick \in [1..n -> F.cells] : arg_df = TableOf(F, pick)
    /\ df = arg_df
    /\ median_watch = Null
    /\ cap_q = [c \in {"watch_time_sec", "duration_sec", "views"} |-> NoQuantiles]
    /\ processed = NotSaved
    /\ DurIdle /\ UnifyIdle /\ DagIdle

FeaturesStepDrop ==
    /\ pc = "f_drop"
    /\ df' = FeaturesDropMetadata(df)
    /\ pc' = "f_gender"
    /\ UNCHANGED <<arg_df, processed, median_watch, cap_q, durVars, unifyVars, dagVars>>

FeaturesStepGender ==
    /\ pc = "f_gender"
    /\ df' = FeaturesGender(df)
    /\ pc' = "f_convert"
    /\ UNCHANGED <<arg_df, processed, median_watch, cap_q, durVars, unifyVars, dagVars>>

FeaturesStepConvert ==
    /\ pc = "f_convert"
    /\ df' = FeaturesConvert(df, numeric_cols)
    /\ pc' = "f_engineer"
    /\ UNCHANGED <<arg_df, processed, median_watch, cap_q, durVars, unifyVars, dagVars>>

FeaturesStepEngineer ==
    /\ pc = "f_engineer"
    /\ df' = FeaturesEngineer(df)
    /\ pc' = "f_fill"
    /\ UNCHANGED <<arg_df, processed, median_watch, cap_q, durVars, unifyVars, dagVars>>

\* both fillna calls and the return
FeaturesStepFill ==
    /\ pc = "f_fill"
    /\ df' = FeaturesFillAll(FeaturesFillNamed(df))
    /\ pc' = "f_done"
    /\ UNCHANGED <<arg_df, processed, median_watch, cap_q, durVars, unifyVars, dagVars>>

NextFeatures ==
    \/ FeaturesStepDrop
    \/ FeaturesStepGender
    \/ FeaturesStepConvert
    \/ FeaturesStepEngineer
    \/ FeaturesStepFill

SpecFeatures == InitFeatures /\ [][NextFeatures]_vars

\* the columns the missing-value step may write
Fillable ==
    {"student_gender", "student_age", "watch_time_sec", "duration_sec", "views",
     "engagement"}

\* C15: the missing-value step of a cleaner fills missing cells of
\* student_gender, student_age, watch_time_sec, duration_sec, views and
\* engagement only: a cell of any other column that is missing before the
\* step is missing after it.
C15_OnlyListedColumnsFilled ==
    [][(pc \in {"fill", "f_fill"}) =>
          (\A i \in 1..Len(df.rows) :
              \A c \in (df.cols \ Fillable) :
                  (IsNull(df.rows[i][c]) => IsNull((df').rows[i][c])))]_vars

\* ====================================================================
\* clean_students.py: the missing-value step and save_outputs
\* ====================================================================
\* C16: when some student_age of the deduplicated table is there, the
\* missing-value step writes exactly the median of the ages that are there
\* (the mean of the two middle ones for an even count) into every missing
\* student_age and leaves the others alone; when none is there the column
\* stays missing.
C16_AgeFilledWithMedian ==
    [][(pc = "fill" /\ Has(df, "student_age")) =>
          (\A i \in 1..Len(df.rows) :
              LET a == df.rows[i]["student_age"]
                  b == (df').rows[i]["student_age"]
                  ages == NonNull(df.rows, "student_age")
              IN IF IsNum(a) THEN b = a
                 ELSE IF ages # <<>> THEN IsNum(b) /\ 2 * b.v = Median2(ages)
                 ELSE IsNull(b))]_vars

\* the cell is watch_time_sec / duration_sec of the row, missing when
\* duration_sec is zero or missing or watch_time_sec is missing
RateOfRow(T, r, x) ==
    IF NoDuration(T, r) \/ ~Has(T, "watch_time_sec") \/ IsNull(r.watch_time_sec)
    THEN IsNull(x)
    ELSE IsRatio(x, r.watch_time_sec.v, r.duration_sec.v)

\* C18 as stated: in every row of the table clean_dataframe returns,
\* completion_rate is missing when the final duration_sec is zero or missing
\* and otherwise is the final watch_time_sec divided by the final
\* duration_sec.
C18_RateOfFinalValues ==
    pc = "done" =>
        \A r \in RowsOf(df) :
            IF NoDuration(df, r) THEN IsNull(r.completion_rate)
            ELSE /\ Has(df, "watch_time_sec") /\ IsNum(r.watch_time_sec)
                 /\ IsRatio(r.completion_rate, r.watch_time_sec.v, r.duration_sec.v)

\* C18 as amended: completion_rate is watch_time_sec / duration_sec of the
\* values the row has when the features are derived (missing when that
\* duration_sec is zero or missing or that watch_time_sec is missing), and
\* deduplication, capping and the missing-value step hand every remaining row
\* on with the completion_rate it had.
C18_RateOfDerivationValues ==
    /\ [](pc = "dedup" =>
            \A r \in RowsOf(df) : RateOfRow(df, r, r.completion_rate))
    /\ [][(pc \in {"dedup", "cap", "fill"}) =>
            (\A i \in 1..Len((df').rows) :
                \E j \in 1..Len(df.rows) :
                    /\ df.rows[j].name = (df').rows[i].name
                    /\ df.rows[j].completion_rate = (df').rows[i].completion_rate)]_vars

\* C18: a returned row whose completion_rate is missing although its final
\* watch_time_sec is the filled 0 and its final duration_sec is positive
C18_WitnessStaleRate ==
    /\ pc = "done"
    /\ \E r \in RowsOf(df) :
          /\ IsNull(r.completion_rate)
          /\ r.watch_time_sec = Num(0)
          /\ IsNum(r.duration_sec) /\ r.duration_sec.v > 0

\* the row in which a course is first encountered
FirstRow(T, c) ==
    CHOOSE i \in 1..Len(T.rows) :
        /\ T.rows[i]["course_name"] = c
        /\ \A j \in 1..(i - 1) : T.rows[j]["course_name"] # c

\* the items of top_courses_by_views in the KPI document this run wrote
TopWritten == processed.kpi_summary[1].top_courses_by_views

\* at most 10 courses of the table, no course twice, each with the sum of the
\* views of its rows, the sums descending
TopListed(T, top) ==
    /\ Len(top) <= TopN
    /\ \A k \in 1..Len(top) :
          /\ top[k].course_name \in CourseNames(T)
          /\ top[k].views = ViewsSum(T, top[k].course_name)
    /\ \A k, l \in 1..Len(top) :
          k < l => /\ top[k].course_name # top[l].course_name
                   /\ top[k].views >= top[l].views

\* C17 as stated: top_courses_by_views lists at most 10 courses by descending
\* summed views, and two courses of equal sums appear in the order in which
\* they are first encountered in the clean table.
C17_TiesFirstEncountered ==
    pc = "saved" =>
        /\ TopListed(df, TopWritten)
        /\ \A k, l \in 1..Len(TopWritten) :
              (k < l /\ TopWritten[k].views = TopWritten[l].views) =>
                  FirstRow(df, TopWritten[k].course_name)
                      < FirstRow(df, TopWritten[l].course_name)

\* C17 as amended: top_courses_by_views lists at most 10 courses of the clean
\* table, each once and with the sum of the views of its rows, ordered by that
\* sum in descending order; nothing is said of the order of equal sums.
C17_TopCoursesDescending == pc = "saved" => TopListed(df, TopWritten)

\* C17: a table of more than 10 courses has been cut to 10, and two courses of
\* equal sums are listed against the order in which they were encountered
C17_WitnessCutAndTieReversed ==
    /\ pc = "saved"
    /\ Cardinality(CourseNames(df)) > TopN
    /\ Len(TopWritten) = TopN
    /\ \E k, l \in 1..Len(TopWritten) :
          /\ k < l
          /\ TopWritten[k].views = TopWritten[l].views
          /\ FirstRow(df, TopWritten[k].course_name)
                > FirstRow(df, TopWritten[l].course_name)

\* the run of main has ended, by returning or by an exception
SaveEnded == pc \in {"saved", "save_raised"}

\* C19: save_outputs raises for no table clean_dataframe returns, and when the
\* run has ended the parquet file and the CSV file of the run are written
\* only if its KPI document is written too.
C19_SaveAllOrNothing ==
    /\ pc # "save_raised"
    /\ SaveEnded =>
          ((processed.parquet # <<>> \/ processed.csv # <<>>)
              => processed.kpi_summary # <<>>)

====
